---- MODULE Spec2Model ----
(***************************************************************************)
(* remote-store: a Store (root-scoped facade) over one Backend (local      *)
(* filesystem, S3 via s3fs, S3 via pyarrow+s3fs, SFTP), and the Registry   *)
(* that lazily constructs and shares Backend instances.                    *)
(*                                                                         *)
(* Paths are modelled as Python strings: sequences of one-character        *)
(* strings, so that split / startswith / slicing are computed as the code  *)
(* computes them.  <<>> is the empty string "".                            *)
(***************************************************************************)
EXTENDS Integers, Sequences, FiniteSets, TLC

(***************************************************************************)
(* Bounds of the model.                                                    *)
(***************************************************************************)
NumContents == 2
MaxCalls == 4
MaxFolderCalls == 1

Contents == 1..NumContents

(***************************************************************************)
(* String helpers (str.startswith, str.split("/"), "/".join, rsplit).      *)
(***************************************************************************)
SL == <<"/">>

StartsWith(s, p) == Len(p) <= Len(s) /\ SubSeq(s, 1, Len(p)) = p

RECURSIVE split_acc(_, _, _)
split_acc(s, i, cur) ==
    IF i > Len(s) THEN <<cur>>
    ELSE IF s[i] = "/" THEN <<cur>> \o split_acc(s, i + 1, <<>>)
    ELSE split_acc(s, i + 1, Append(cur, s[i]))

split(s) == split_acc(s, 1, <<>>)

RECURSIVE join(_)
join(parts) ==
    IF parts = <<>> THEN <<>>
    ELSE IF Len(parts) = 1 THEN parts[1]
    ELSE parts[1] \o SL \o join(Tail(parts))

HasSlash(s) == \E i \in 1..Len(s) : s[i] = "/"

LastSlash(s) == CHOOSE i \in 1..Len(s) : s[i] = "/" /\ \A j \in (i + 1)..Len(s) : s[j] # "/"

\* s.rsplit("/", 1)[-1]
rsplit_last(s) == IF HasSlash(s) THEN SubSeq(s, LastSlash(s) + 1, Len(s)) ELSE s

\* s.rsplit("/", 1)[0] when "/" in s, else ""
rsplit_head(s) == IF HasSlash(s) THEN SubSeq(s, 1, LastSlash(s) - 1) ELSE <<>>

(***************************************************************************)
(* RemotePath._normalize                                                   *)
(***************************************************************************)
Valid(p) == [ok |-> TRUE, path |-> p]
Invalid == [ok |-> FALSE, path |-> <<>>]

\* a normalisation that leaves backslashes alone
replace_nothing(raw) == raw

replace_backslash(raw) == [i \in 1..Len(raw) |-> IF raw[i] = "\\" THEN "/" ELSE raw[i]]

normalize(raw) ==
    IF \E i \in 1..Len(raw) : raw[i] = "NUL" THEN Invalid
    ELSE LET segs == split(replace_backslash(raw))
             parts == SelectSeq(segs, LAMBDA g : g # <<>> /\ g # <<".">>)
         IN  IF \E i \in 1..Len(segs) : segs[i] = <<".", ".">> THEN Invalid
             ELSE IF parts = <<>> THEN Invalid
             ELSE Valid(join(parts))

(***************************************************************************)
(* Store path resolution and rebasing                                      *)
(***************************************************************************)
store_init(root_path) == IF root_path # <<>> THEN normalize(root_path) ELSE Valid(<<>>)

\* a resolution that prepends no root
full_path_unrooted(rt, path) == IF path = <<>> THEN Valid(<<>>) ELSE normalize(path)

full_path(rt, path) ==
    IF path = <<>> THEN Valid(rt)
    ELSE LET validated == normalize(path)
         IN  IF ~validated.ok THEN Invalid
             ELSE IF rt # <<>> THEN Valid(rt \o SL \o validated.path)
             ELSE validated

\* a resolution that lets the empty path through as the store root
require_file_path_any(rt, path) == full_path(rt, path)

require_file_path(rt, path) == IF path = <<>> THEN Invalid ELSE full_path(rt, path)

strip_root_keep(rt, backend_rel) == Valid(backend_rel)

strip_root(rt, backend_rel) ==
    IF rt = <<>> THEN Valid(backend_rel)
    ELSE IF backend_rel = rt THEN Valid(<<>>)
    ELSE IF StartsWith(backend_rel, rt \o SL)
         THEN Valid(SubSeq(backend_rel, Len(rt \o SL) + 1, Len(backend_rel)))
    ELSE Invalid

(***************************************************************************)
(* File contents.  A complete payload is Full(i); a temporary or           *)
(* non-atomically written file may hold a prefix of it (Partial) or, after *)
(* open(..., "w") truncated it, nothing (Empty).                            *)
(***************************************************************************)
Full(i) == [data |-> i, complete |-> TRUE]
Partial(i) == [data |-> i, complete |-> FALSE]
Empty == [data |-> 0, complete |-> TRUE]
Size(c) == IF c.complete THEN c.data ELSE 0

(***************************************************************************)
(* Native storage.  files maps a native path to its content, dirs is the   *)
(* set of real directories (always empty on S3, where folders are          *)
(* prefixes).  Native paths are absolute: LocalRoot/key on the local       *)
(* backend, bucket/key on S3, base_path/key on SFTP.                       *)
(***************************************************************************)
Kinds == {"local", "s3", "s3-pyarrow", "sftp"}
LocalRoot == <<"/", "t">>
Bucket == <<"b">>
SFTPBase == <<"/", "u">>

NativeRoot(k) == IF k = "local" THEN LocalRoot ELSE IF k = "sftp" THEN SFTPBase ELSE Bucket

FS(f, d) == [files |-> f, dirs |-> d]
Put(fs, n, c) == FS([x \in DOMAIN fs.files \cup {n} |-> IF x = n THEN c ELSE fs.files[x]], fs.dirs)
Del(fs, n) == FS([x \in DOMAIN fs.files \ {n} |-> fs.files[x]], fs.dirs)
MkDirs(fs, ds) == FS(fs.files, fs.dirs \cup ds)
RmDirs(fs, ds) == FS(fs.files, fs.dirs \ ds)

\* every proper ancestor directory path of a native path
Ancestors(n) == {SubSeq(n, 1, i - 1) : i \in {j \in 2..Len(n) : n[j] = "/"}}
Under(dir, n) == StartsWith(n, dir \o SL)
IsChild(dir, n) == Under(dir, n) /\ ~HasSlash(SubSeq(n, Len(dir) + 2, Len(n)))

P_isfile(fs, n) == n \in DOMAIN fs.files
P_isdir(fs, n) == n \in fs.dirs
P_exists(fs, n) == P_isfile(fs, n) \/ P_isdir(fs, n)
AncFile(fs, n) == \E a \in Ancestors(n) : P_isfile(fs, a)

\* outcome of a Backend call: taxonomy error name (or "ok", or "NativeError"
\* for an unmapped native exception), returned values, and storage afterwards
Outcome(res, out, fs) == [res |-> res, out |-> out, files |-> fs.files, dirs |-> fs.dirs]

(***************************************************************************)
(* LocalBackend                                                            *)
(***************************************************************************)
\* (root / path).resolve(); without symlinks the result stays under root
LocalBackend_resolve(path) == IF path = <<>> THEN LocalRoot ELSE LocalRoot \o SL \o path

LocalBackend_to_key(native_path) ==
    LET normalized == replace_backslash(native_path)
        root_prefix == replace_backslash(LocalRoot)
    IN  IF StartsWith(normalized, root_prefix \o SL)
        THEN SubSeq(normalized, Len(root_prefix) + 2, Len(normalized))
        ELSE IF normalized = root_prefix THEN <<>>
        ELSE native_path

LocalBackend_exists(fs, path) == P_exists(fs, LocalBackend_resolve(path))
LocalBackend_is_file(fs, path) == P_isfile(fs, LocalBackend_resolve(path))
LocalBackend_is_folder(fs, path) == P_isdir(fs, LocalBackend_resolve(path))

\* Path.read_bytes: FileNotFoundError -> NotFound; IsADirectoryError and
\* NotADirectoryError are not caught
LocalBackend_read_bytes(fs, path) ==
    LET full == LocalBackend_resolve(path)
    IN  IF P_isfile(fs, full) THEN {Outcome("ok", {fs.files[full]}, fs)}
        ELSE IF P_isdir(fs, full) \/ AncFile(fs, full) THEN {Outcome("NativeError", {}, fs)}
        ELSE {Outcome("NotFound", {}, fs)}

LocalBackend_write_unchecked(fs, path, content, overwrite) ==
    LET full == LocalBackend_resolve(path)
    IN  IF AncFile(fs, full) THEN {Outcome("NativeError", {}, fs)}
        ELSE IF P_isdir(fs, full) THEN {Outcome("NativeError", {}, fs)}
        ELSE {Outcome("ok", {}, Put(MkDirs(fs, Ancestors(full)), full, content))}

\* full.parent.mkdir(parents=True, exist_ok=True) then full.write_bytes(data)
LocalBackend_write(fs, path, content, overwrite) ==
    LET full == LocalBackend_resolve(path)
    IN  IF ~overwrite /\ P_exists(fs, full) THEN {Outcome("AlreadyExists", {}, fs)}
        ELSE IF AncFile(fs, full) THEN {Outcome("NativeError", {}, fs)}
        ELSE IF P_isdir(fs, full) THEN {Outcome("NativeError", {}, fs)}
        ELSE {Outcome("ok", {}, Put(MkDirs(fs, Ancestors(full)), full, content))}

\* full.unlink(): FileNotFoundError -> NotFound unless missing_ok
\* a delete that also removes the parent directory it has emptied (what an
\* object store does with a prefix, and what the local backend must not do)
LocalBackend_delete_prune(fs, path, missing_ok) ==
    LET full == LocalBackend_resolve(path)
        parent == rsplit_head(full)
        left == Del(fs, full)
    IN  IF P_isfile(fs, full)
        THEN {Outcome("ok", {}, IF parent # LocalRoot /\ \A n \in DOMAIN left.files \cup left.dirs : ~Under(parent, n)
                                THEN FS(left.files, left.dirs \ {parent}) ELSE left)}
        ELSE IF P_isdir(fs, full) \/ AncFile(fs, full) THEN {Outcome("NativeError", {}, fs)}
        ELSE IF ~missing_ok THEN {Outcome("NotFound", {}, fs)}
        ELSE {Outcome("ok", {}, fs)}

LocalBackend_delete(fs, path, missing_ok) ==
    LET full == LocalBackend_resolve(path)
    IN  IF P_isfile(fs, full) THEN {Outcome("ok", {}, Del(fs, full))}
        ELSE IF P_isdir(fs, full) \/ AncFile(fs, full) THEN {Outcome("NativeError", {}, fs)}
        ELSE IF ~missing_ok THEN {Outcome("NotFound", {}, fs)}
        ELSE {Outcome("ok", {}, fs)}

(***************************************************************************)
(* Metadata models.  FileInfo.path / FolderInfo.path are RemotePath        *)
(* values, so constructing one normalizes (and may reject) the string.     *)
(***************************************************************************)
FileInfo(path, content) == [path |-> normalize(path).path, name |-> rsplit_last(path), size |-> Size(content)]
FolderInfo(path, count, size) == [path |-> normalize(path).path, file_count |-> count, total_size |-> size]

RECURSIVE SumSizes(_, _)
SumSizes(fs, ns) ==
    IF ns = {} THEN 0
    ELSE LET n == CHOOSE x \in ns : TRUE IN Size(fs.files[n]) + SumSizes(fs, ns \ {n})

FilesUnder(fs, dir) == {n \in DOMAIN fs.files : Under(dir, n)}
FilesIn(fs, dir) == {n \in DOMAIN fs.files : IsChild(dir, n)}
DirsUnder(fs, dir) == {n \in fs.dirs : Under(dir, n)}
DirsIn(fs, dir) == {n \in fs.dirs : IsChild(dir, n)}

LocalBackend_list_files(fs, path, recursive) ==
    LET full == LocalBackend_resolve(path)
        items == IF recursive THEN FilesUnder(fs, full) ELSE FilesIn(fs, full)
    IN  IF ~P_isdir(fs, full) THEN {Outcome("ok", {}, fs)}
        ELSE {Outcome("ok", {FileInfo(LocalBackend_to_key(item), fs.files[item]) : item \in items}, fs)}

LocalBackend_list_folders(fs, path) ==
    LET full == LocalBackend_resolve(path)
    IN  IF ~P_isdir(fs, full) THEN {Outcome("ok", {}, fs)}
        ELSE {Outcome("ok", {rsplit_last(item) : item \in DirsIn(fs, full)}, fs)}

LocalBackend_get_file_info(fs, path) ==
    LET full == LocalBackend_resolve(path)
    IN  IF ~P_isfile(fs, full) THEN {Outcome("NotFound", {}, fs)}
        ELSE {Outcome("ok", {FileInfo(path, fs.files[full])}, fs)}

LocalBackend_get_folder_info(fs, path) ==
    LET full == LocalBackend_resolve(path)
        items == FilesUnder(fs, full)
    IN  IF ~P_isdir(fs, full) THEN {Outcome("NotFound", {}, fs)}
        ELSE IF ~normalize(path).ok THEN {Outcome("InvalidPath", {}, fs)}
        ELSE {Outcome("ok", {FolderInfo(path, Cardinality(items), SumSizes(fs, items))}, fs)}

\* a delete_folder that removes the whole tree whether or not recursive is set
LocalBackend_delete_folder_rmtree(fs, path, recursive, missing_ok) ==
    LET full == LocalBackend_resolve(path)
    IN  IF ~P_isdir(fs, full)
        THEN IF ~missing_ok \/ P_isfile(fs, full) THEN {Outcome("NotFound", {}, fs)} ELSE {Outcome("ok", {}, fs)}
        ELSE {Outcome("ok", {}, FS([n \in DOMAIN fs.files \ FilesUnder(fs, full) |-> fs.files[n]],
                                   fs.dirs \ (DirsUnder(fs, full) \cup {full})))}

\* shutil.rmtree / Path.rmdir; ENOTEMPTY is reported as NotFound
LocalBackend_delete_folder(fs, path, recursive, missing_ok) ==
    LET full == LocalBackend_resolve(path)
        inside == FilesUnder(fs, full) \cup DirsUnder(fs, full)
    IN  IF ~P_exists(fs, full)
        THEN IF ~missing_ok THEN {Outcome("NotFound", {}, fs)} ELSE {Outcome("ok", {}, fs)}
        ELSE IF ~P_isdir(fs, full) THEN {Outcome("NotFound", {}, fs)}
        ELSE IF recursive
             THEN {Outcome("ok", {}, FS([n \in DOMAIN fs.files \ FilesUnder(fs, full) |-> fs.files[n]],
                                        fs.dirs \ (DirsUnder(fs, full) \cup {full})))}
        ELSE IF inside # {} THEN {Outcome("NotFound", {}, fs)}
        ELSE {Outcome("ok", {}, RmDirs(fs, {full}))}

InTree(a, n) == n = a \/ Under(a, n)
Moved(n, a, b) == b \o SubSeq(n, Len(a) + 1, Len(n))

\* os.rename(a, b) where it succeeds: the file a, or the directory a with
\* everything in it, is afterwards at b
RenameTree(fs, a, b) ==
    LET fmoved == {n \in DOMAIN fs.files : InTree(a, n)}
        dmoved == {n \in fs.dirs : InTree(a, n)}
        fkept == DOMAIN fs.files \ (fmoved \cup {b})
    IN  FS([m \in fkept \cup {Moved(n, a, b) : n \in fmoved} |->
                IF m \in fkept THEN fs.files[m]
                ELSE fs.files[CHOOSE n \in fmoved : Moved(n, a, b) = m]],
           (fs.dirs \ dmoved) \cup {Moved(n, a, b) : n \in dmoved})

\* shutil.move(src_full, dst_full) after dst_full.parent.mkdir: into dst when
\* dst is a directory, else onto dst
shutil_move(fs, src_full, dst_full) ==
    LET real_dst == IF P_isdir(fs, dst_full) THEN dst_full \o SL \o rsplit_last(src_full) ELSE dst_full
    IN  IF src_full = dst_full THEN Outcome("ok", {}, fs)
        ELSE IF P_isdir(fs, dst_full) /\ P_exists(fs, real_dst) THEN Outcome("NativeError", {}, fs)
        ELSE IF P_isdir(fs, src_full) /\ (Under(src_full, real_dst) \/ P_isfile(fs, real_dst))
             THEN Outcome("NativeError", {}, fs)
        ELSE Outcome("ok", {}, RenameTree(fs, src_full, real_dst))

LocalBackend_move_unchecked(fs, src, dst, overwrite) ==
    LET src_full == LocalBackend_resolve(src)
        dst_full == LocalBackend_resolve(dst)
    IN  IF ~P_exists(fs, src_full) THEN {Outcome("NotFound", {}, fs)}
        ELSE IF AncFile(fs, dst_full) THEN {Outcome("NativeError", {}, fs)}
        ELSE {shutil_move(MkDirs(fs, Ancestors(dst_full)), src_full, dst_full)}

LocalBackend_move(fs, src, dst, overwrite) ==
    LET src_full == LocalBackend_resolve(src)
        dst_full == LocalBackend_resolve(dst)
    IN  IF ~P_exists(fs, src_full) THEN {Outcome("NotFound", {}, fs)}
        ELSE IF ~overwrite /\ P_exists(fs, dst_full) THEN {Outcome("AlreadyExists", {}, fs)}
        ELSE IF AncFile(fs, dst_full) THEN {Outcome("NativeError", {}, fs)}
        ELSE {shutil_move(MkDirs(fs, Ancestors(dst_full)), src_full, dst_full)}

\* shutil.copy2(src_full, dst_full) after dst_full.parent.mkdir: into dst when
\* dst is a directory; a directory src, the same file, or a directory at the
\* place to write are native errors
shutil_copy2(fs, src_full, dst_full) ==
    LET real_dst == IF P_isdir(fs, dst_full) THEN dst_full \o SL \o rsplit_last(src_full) ELSE dst_full
    IN  IF P_isdir(fs, src_full) \/ real_dst = src_full \/ P_isdir(fs, real_dst)
        THEN Outcome("NativeError", {}, fs)
        ELSE Outcome("ok", {}, Put(fs, real_dst, fs.files[src_full]))

LocalBackend_copy(fs, src, dst, overwrite) ==
    LET src_full == LocalBackend_resolve(src)
        dst_full == LocalBackend_resolve(dst)
    IN  IF ~P_exists(fs, src_full) THEN {Outcome("NotFound", {}, fs)}
        ELSE IF ~overwrite /\ P_exists(fs, dst_full) THEN {Outcome("AlreadyExists", {}, fs)}
        ELSE IF AncFile(fs, dst_full) THEN {Outcome("NativeError", {}, fs)}
        ELSE {shutil_copy2(MkDirs(fs, Ancestors(dst_full)), src_full, dst_full)}

(***************************************************************************)
(* s3fs.S3FileSystem as the S3 backends use it (exists, info, ls, find,    *)
(* cat_file, pipe_file, rm, copy) over the objects of one bucket.          *)
(***************************************************************************)
s3fs_info(fs, n) ==
    IF n \in DOMAIN fs.files THEN "file"
    ELSE IF n = Bucket \/ FilesUnder(fs, n) # {} THEN "directory"
    ELSE "missing"

s3fs_exists(fs, n) == s3fs_info(fs, n) # "missing"

\* the first-level names under a prefix that are common prefixes of deeper keys
s3fs_prefixes(fs, n) ==
    {n \o SL \o split(SubSeq(k, Len(n) + 2, Len(k)))[1] : k \in {x \in FilesUnder(fs, n) : ~IsChild(n, x)}}

Entry(name, type) == [name |-> name, type |-> type]

s3fs_ls(fs, n) ==
    LET listed == {Entry(k, "file") : k \in FilesIn(fs, n)} \cup {Entry(d, "directory") : d \in s3fs_prefixes(fs, n)}
    IN  IF listed = {} /\ n \in DOMAIN fs.files THEN {Entry(n, "file")} ELSE listed

s3fs_find(fs, n) ==
    IF FilesUnder(fs, n) = {} /\ n \in DOMAIN fs.files THEN {n} ELSE FilesUnder(fs, n)

\* rm(recursive=True): the key itself and every key under it
s3fs_rm_recursive(fs, n) ==
    FS([k \in DOMAIN fs.files \ (FilesUnder(fs, n) \cup {n}) |-> fs.files[k]], fs.dirs)

(***************************************************************************)
(* S3Backend                                                               *)
(***************************************************************************)
S3Backend_s3_path(path) == IF path # <<>> THEN Bucket \o SL \o path ELSE Bucket

S3Backend_rel_path(s3_path) ==
    IF StartsWith(s3_path, Bucket \o SL) THEN SubSeq(s3_path, Len(Bucket \o SL) + 1, Len(s3_path))
    ELSE s3_path

\* an is_folder that looks for a real directory entry
S3Backend_is_folder_real(fs, path) == P_isdir(fs, S3Backend_s3_path(path))

\* an is_folder that looks only at the keys below the path
S3Backend_is_folder_prefix(fs, path) == FilesUnder(fs, S3Backend_s3_path(path)) # {}

S3Backend_exists(fs, path) == s3fs_exists(fs, S3Backend_s3_path(path))
S3Backend_is_file(fs, path) == s3fs_info(fs, S3Backend_s3_path(path)) = "file"
S3Backend_is_folder(fs, path) == s3fs_info(fs, S3Backend_s3_path(path)) = "directory"

S3Backend_read_bytes(fs, path) ==
    LET n == S3Backend_s3_path(path)
    IN  IF n \in DOMAIN fs.files THEN {Outcome("ok", {fs.files[n]}, fs)}
        ELSE {Outcome("NotFound", {}, fs)}

S3Backend_write(fs, path, content, overwrite) ==
    LET n == S3Backend_s3_path(path)
    IN  IF ~overwrite /\ s3fs_exists(fs, n) THEN {Outcome("AlreadyExists", {}, fs)}
        ELSE {Outcome("ok", {}, Put(fs, n, content))}

S3Backend_write_atomic(fs, path, content, overwrite) == S3Backend_write(fs, path, content, overwrite)

S3Backend_delete(fs, path, missing_ok) ==
    LET n == S3Backend_s3_path(path)
    IN  IF ~s3fs_exists(fs, n)
        THEN IF ~missing_ok THEN {Outcome("NotFound", {}, fs)} ELSE {Outcome("ok", {}, fs)}
        ELSE {Outcome("ok", {}, Del(fs, n))}

S3Backend_delete_folder(fs, path, recursive, missing_ok) ==
    LET s3_path == S3Backend_s3_path(path)
    IN  IF ~s3fs_exists(fs, s3_path)
        THEN IF ~missing_ok THEN {Outcome("NotFound", {}, fs)} ELSE {Outcome("ok", {}, fs)}
        ELSE IF recursive THEN {Outcome("ok", {}, s3fs_rm_recursive(fs, s3_path))}
        ELSE IF s3fs_ls(fs, s3_path) # {} THEN {Outcome("RemoteStoreError", {}, fs)}
        ELSE {Outcome("ok", {}, fs)}

S3Backend_list_files(fs, path, recursive) ==
    LET s3_path == S3Backend_s3_path(path)
    IN  IF ~s3fs_exists(fs, s3_path) THEN {Outcome("ok", {}, fs)}
        ELSE IF recursive
             THEN {Outcome("ok", {FileInfo(S3Backend_rel_path(k), fs.files[k]) : k \in s3fs_find(fs, s3_path)}, fs)}
        ELSE {Outcome("ok", {FileInfo(S3Backend_rel_path(e.name), fs.files[e.name]) :
                                e \in {x \in s3fs_ls(fs, s3_path) : x.type = "file"}}, fs)}

S3Backend_list_folders(fs, path) ==
    LET s3_path == S3Backend_s3_path(path)
    IN  IF ~s3fs_exists(fs, s3_path) THEN {Outcome("ok", {}, fs)}
        ELSE {Outcome("ok", {rsplit_last(e.name) : e \in {x \in s3fs_ls(fs, s3_path) : x.type = "directory"}}, fs)}

S3Backend_get_file_info(fs, path) ==
    LET n == S3Backend_s3_path(path)
    IN  IF s3fs_info(fs, n) # "file" THEN {Outcome("NotFound", {}, fs)}
        ELSE {Outcome("ok", {FileInfo(path, fs.files[n])}, fs)}

S3Backend_get_folder_info(fs, path) ==
    LET s3_path == S3Backend_s3_path(path)
        results == s3fs_find(fs, s3_path)
    IN  IF ~s3fs_exists(fs, s3_path) THEN {Outcome("NotFound", {}, fs)}
        ELSE IF results = {} THEN {Outcome("NotFound", {}, fs)}
        ELSE IF ~normalize(path).ok THEN {Outcome("InvalidPath", {}, fs)}
        ELSE {Outcome("ok", {FolderInfo(path, Cardinality(results), SumSizes(fs, results))}, fs)}

\* CopyObject of a key onto itself is rejected by some S3 servers and
\* accepted by others; a source that is a prefix and no object is skipped by
\* some versions of the client and reported missing by others; both
\* outcomes are kept
s3_copy_object(fs, a, b) ==
    IF a \notin DOMAIN fs.files
    THEN {[ok |-> TRUE, err |-> "ok", fs |-> fs], [ok |-> FALSE, err |-> "NotFound", fs |-> fs]}
    ELSE IF a = b
    THEN {[ok |-> TRUE, err |-> "ok", fs |-> fs], [ok |-> FALSE, err |-> "RemoteStoreError", fs |-> fs]}
    ELSE {[ok |-> TRUE, err |-> "ok", fs |-> Put(fs, b, fs.files[a])]}

S3Backend_move(fs, src, dst, overwrite) ==
    LET a == S3Backend_s3_path(src)
        b == S3Backend_s3_path(dst)
    IN  IF ~s3fs_exists(fs, a) THEN {Outcome("NotFound", {}, fs)}
        ELSE IF ~overwrite /\ s3fs_exists(fs, b) THEN {Outcome("AlreadyExists", {}, fs)}
        ELSE {IF c.ok THEN Outcome("ok", {}, Del(c.fs, a)) ELSE Outcome(c.err, {}, fs) :
                c \in s3_copy_object(fs, a, b)}

S3Backend_copy(fs, src, dst, overwrite) ==
    LET a == S3Backend_s3_path(src)
        b == S3Backend_s3_path(dst)
    IN  IF ~s3fs_exists(fs, a) THEN {Outcome("NotFound", {}, fs)}
        ELSE IF ~overwrite /\ s3fs_exists(fs, b) THEN {Outcome("AlreadyExists", {}, fs)}
        ELSE {IF c.ok THEN Outcome("ok", {}, c.fs) ELSE Outcome(c.err, {}, fs) :
                c \in s3_copy_object(fs, a, b)}

(***************************************************************************)
(* S3PyArrowBackend: data path through pyarrow.fs.S3FileSystem             *)
(* (open_input_stream, open_output_stream, copy_file), control path        *)
(* through s3fs, both on the same bucket.                                  *)
(***************************************************************************)
S3PyArrowBackend_s3_path(path) == IF path # <<>> THEN Bucket \o SL \o path ELSE Bucket
S3PyArrowBackend_pa_path(path) == IF path # <<>> THEN Bucket \o SL \o path ELSE Bucket

S3PyArrowBackend_to_key(native_path) ==
    IF StartsWith(native_path, Bucket \o SL) THEN SubSeq(native_path, Len(Bucket \o SL) + 1, Len(native_path))
    ELSE native_path

S3PyArrowBackend_exists(fs, path) == s3fs_exists(fs, S3PyArrowBackend_s3_path(path))
S3PyArrowBackend_is_file(fs, path) == s3fs_info(fs, S3PyArrowBackend_s3_path(path)) = "file"
S3PyArrowBackend_is_folder(fs, path) == s3fs_info(fs, S3PyArrowBackend_s3_path(path)) = "directory"

S3PyArrowBackend_read_bytes(fs, path) ==
    LET n == S3PyArrowBackend_pa_path(path)
    IN  IF n \in DOMAIN fs.files THEN {Outcome("ok", {fs.files[n]}, fs)}
        ELSE {Outcome("NotFound", {}, fs)}

S3PyArrowBackend_write(fs, path, content, overwrite) ==
    IF ~overwrite /\ s3fs_exists(fs, S3PyArrowBackend_s3_path(path)) THEN {Outcome("AlreadyExists", {}, fs)}
    ELSE {Outcome("ok", {}, Put(fs, S3PyArrowBackend_pa_path(path), content))}

S3PyArrowBackend_write_atomic(fs, path, content, overwrite) == S3PyArrowBackend_write(fs, path, content, overwrite)

S3PyArrowBackend_delete(fs, path, missing_ok) ==
    LET n == S3PyArrowBackend_s3_path(path)
    IN  IF ~s3fs_exists(fs, n)
        THEN IF ~missing_ok THEN {Outcome("NotFound", {}, fs)} ELSE {Outcome("ok", {}, fs)}
        ELSE {Outcome("ok", {}, Del(fs, n))}

S3PyArrowBackend_delete_folder(fs, path, recursive, missing_ok) ==
    LET s3_path == S3PyArrowBackend_s3_path(path)
    IN  IF ~s3fs_exists(fs, s3_path)
        THEN IF ~missing_ok THEN {Outcome("NotFound", {}, fs)} ELSE {Outcome("ok", {}, fs)}
        ELSE IF recursive THEN {Outcome("ok", {}, s3fs_rm_recursive(fs, s3_path))}
        ELSE IF s3fs_ls(fs, s3_path) # {} THEN {Outcome("RemoteStoreError", {}, fs)}
        ELSE {Outcome("ok", {}, fs)}

S3PyArrowBackend_list_files(fs, path, recursive) ==
    LET s3_path == S3PyArrowBackend_s3_path(path)
    IN  IF ~s3fs_exists(fs, s3_path) THEN {Outcome("ok", {}, fs)}
        ELSE IF recursive
             THEN {Outcome("ok", {FileInfo(S3PyArrowBackend_to_key(k), fs.files[k]) : k \in s3fs_find(fs, s3_path)}, fs)}
        ELSE {Outcome("ok", {FileInfo(S3PyArrowBackend_to_key(e.name), fs.files[e.name]) :
                                e \in {x \in s3fs_ls(fs, s3_path) : x.type = "file"}}, fs)}

S3PyArrowBackend_list_folders(fs, path) ==
    LET s3_path == S3PyArrowBackend_s3_path(path)
    IN  IF ~s3fs_exists(fs, s3_path) THEN {Outcome("ok", {}, fs)}
        ELSE {Outcome("ok", {rsplit_last(e.name) : e \in {x \in s3fs_ls(fs, s3_path) : x.type = "directory"}}, fs)}

S3PyArrowBackend_get_file_info(fs, path) ==
    LET n == S3PyArrowBackend_s3_path(path)
    IN  IF s3fs_info(fs, n) # "file" THEN {Outcome("NotFound", {}, fs)}
        ELSE {Outcome("ok", {FileInfo(path, fs.files[n])}, fs)}

S3PyArrowBackend_get_folder_info(fs, path) ==
    LET s3_path == S3PyArrowBackend_s3_path(path)
        results == s3fs_find(fs, s3_path)
    IN  IF ~s3fs_exists(fs, s3_path) THEN {Outcome("NotFound", {}, fs)}
        ELSE IF results = {} THEN {Outcome("NotFound", {}, fs)}
        ELSE IF ~normalize(path).ok THEN {Outcome("InvalidPath", {}, fs)}
        ELSE {Outcome("ok", {FolderInfo(path, Cardinality(results), SumSizes(fs, results))}, fs)}

\* three steps: s3fs existence checks, pyarrow copy_file, s3fs rm of src
S3PyArrowBackend_move(fs, src, dst, overwrite) ==
    IF ~s3fs_exists(fs, S3PyArrowBackend_s3_path(src)) THEN {Outcome("NotFound", {}, fs)}
    ELSE IF ~overwrite /\ s3fs_exists(fs, S3PyArrowBackend_s3_path(dst)) THEN {Outcome("AlreadyExists", {}, fs)}
    ELSE {IF c.ok THEN Outcome("ok", {}, Del(c.fs, S3PyArrowBackend_s3_path(src)))
          ELSE Outcome(c.err, {}, fs) :
            c \in s3_copy_object(fs, S3PyArrowBackend_pa_path(src), S3PyArrowBackend_pa_path(dst))}

S3PyArrowBackend_copy(fs, src, dst, overwrite) ==
    IF ~s3fs_exists(fs, S3PyArrowBackend_s3_path(src)) THEN {Outcome("NotFound", {}, fs)}
    ELSE IF ~overwrite /\ s3fs_exists(fs, S3PyArrowBackend_s3_path(dst)) THEN {Outcome("AlreadyExists", {}, fs)}
    ELSE {IF c.ok THEN Outcome("ok", {}, c.fs) ELSE Outcome(c.err, {}, fs) :
            c \in s3_copy_object(fs, S3PyArrowBackend_pa_path(src), S3PyArrowBackend_pa_path(dst))}

(***************************************************************************)
(* SFTPBackend over a paramiko SFTPClient.  A failed stat / open on a path *)
(* that is missing, or whose parent is not a directory, is ENOENT; other   *)
(* server failures carry no errno.                                         *)
(***************************************************************************)
SFTPBackend_sftp_path(path) ==
    IF path # <<>> THEN (IF SFTPBase = SL THEN SL \o path ELSE SFTPBase \o SL \o path) ELSE SFTPBase

SFTPBackend_to_key(native_path) ==
    IF StartsWith(native_path, SFTPBase \o SL) THEN SubSeq(native_path, Len(SFTPBase) + 2, Len(native_path))
    ELSE IF native_path = SFTPBase THEN <<>>
    ELSE native_path

sftp_parent_is_dir(fs, n) == rsplit_head(n) = <<>> \/ P_isdir(fs, rsplit_head(n))

\* stat(current), and mkdir(current) when the stat fails; mkdir errors are suppressed
RECURSIVE ensure_walk(_, _, _)
ensure_walk(fs, n, i) ==
    IF i > Len(n) THEN fs
    ELSE IF n[i] # "/" THEN ensure_walk(fs, n, i + 1)
    ELSE LET current == SubSeq(n, 1, i - 1)
         IN  IF ~P_exists(fs, current) /\ sftp_parent_is_dir(fs, current)
             THEN ensure_walk(MkDirs(fs, {current}), n, i + 1)
             ELSE ensure_walk(fs, n, i + 1)

SFTPBackend_ensure_parent_dirs(fs, sftp_path) ==
    LET parent == rsplit_head(sftp_path)
    IN  IF parent = <<>> \/ parent = SFTPBase THEN fs ELSE ensure_walk(fs, sftp_path, 2)

SFTPBackend_exists(fs, path) == P_exists(fs, SFTPBackend_sftp_path(path))
SFTPBackend_is_file(fs, path) == P_isfile(fs, SFTPBackend_sftp_path(path))
SFTPBackend_is_folder(fs, path) == P_isdir(fs, SFTPBackend_sftp_path(path))

SFTPBackend_read_bytes(fs, path) ==
    LET n == SFTPBackend_sftp_path(path)
    IN  IF P_isfile(fs, n) THEN {Outcome("ok", {fs.files[n]}, fs)}
        ELSE IF P_isdir(fs, n) THEN {Outcome("RemoteStoreError", {}, fs)}
        ELSE {Outcome("NotFound", {}, fs)}

SFTPBackend_write(fs, path, content, overwrite) ==
    LET n == SFTPBackend_sftp_path(path)
        fs1 == SFTPBackend_ensure_parent_dirs(fs, n)
    IN  IF ~overwrite /\ P_exists(fs, n) THEN {Outcome("AlreadyExists", {}, fs)}
        ELSE IF ~sftp_parent_is_dir(fs1, n) THEN {Outcome("NotFound", {}, fs1)}
        ELSE IF P_isdir(fs1, n) THEN {Outcome("RemoteStoreError", {}, fs1)}
        ELSE {Outcome("ok", {}, Put(fs1, n, content))}

SFTPBackend_delete(fs, path, missing_ok) ==
    LET n == SFTPBackend_sftp_path(path)
    IN  IF P_isfile(fs, n) THEN {Outcome("ok", {}, Del(fs, n))}
        ELSE IF P_isdir(fs, n) THEN {Outcome("RemoteStoreError", {}, fs)}
        ELSE IF ~missing_ok THEN {Outcome("NotFound", {}, fs)}
        ELSE {Outcome("ok", {}, fs)}

SFTPBackend_rmtree(fs, n) ==
    FS([k \in DOMAIN fs.files \ FilesUnder(fs, n) |-> fs.files[k]], fs.dirs \ (DirsUnder(fs, n) \cup {n}))

SFTPBackend_delete_folder(fs, path, recursive, missing_ok) ==
    LET n == SFTPBackend_sftp_path(path)
    IN  IF P_isfile(fs, n) THEN {Outcome("NotFound", {}, fs)}
        ELSE IF ~P_isdir(fs, n)
             THEN IF ~missing_ok THEN {Outcome("NotFound", {}, fs)} ELSE {Outcome("ok", {}, fs)}
        ELSE IF recursive THEN {Outcome("ok", {}, SFTPBackend_rmtree(fs, n))}
        ELSE IF FilesIn(fs, n) \cup DirsIn(fs, n) # {} THEN {Outcome("RemoteStoreError", {}, fs)}
        ELSE {Outcome("ok", {}, RmDirs(fs, {n}))}

\* rel = f"{path}/{attr.filename}" if path else attr.filename, through the recursion
sftp_rel(path, n) ==
    LET below == SubSeq(n, Len(SFTPBackend_sftp_path(path)) + 2, Len(n))
    IN  IF path # <<>> THEN path \o SL \o below ELSE below

SFTPBackend_list_files(fs, path, recursive) ==
    LET n == SFTPBackend_sftp_path(path)
        items == IF recursive THEN FilesUnder(fs, n) ELSE FilesIn(fs, n)
    IN  IF ~P_isdir(fs, n) THEN {Outcome("ok", {}, fs)}
        ELSE {Outcome("ok", {FileInfo(sftp_rel(path, item), fs.files[item]) : item \in items}, fs)}

SFTPBackend_list_folders(fs, path) ==
    LET n == SFTPBackend_sftp_path(path)
    IN  IF ~P_isdir(fs, n) THEN {Outcome("ok", {}, fs)}
        ELSE {Outcome("ok", {rsplit_last(item) : item \in DirsIn(fs, n)}, fs)}

SFTPBackend_get_file_info(fs, path) ==
    LET n == SFTPBackend_sftp_path(path)
    IN  IF ~P_isfile(fs, n) THEN {Outcome("NotFound", {}, fs)}
        ELSE {Outcome("ok", {FileInfo(path, fs.files[n])}, fs)}

SFTPBackend_get_folder_info(fs, path) ==
    LET n == SFTPBackend_sftp_path(path)
        items == FilesUnder(fs, n)
    IN  IF ~P_isdir(fs, n) THEN {Outcome("NotFound", {}, fs)}
        ELSE IF items = {} THEN {Outcome("NotFound", {}, fs)}
        ELSE IF ~normalize(path).ok THEN {Outcome("InvalidPath", {}, fs)}
        ELSE {Outcome("ok", {FolderInfo(path, Cardinality(items), SumSizes(fs, items))}, fs)}

\* rename(2) on the server: a file replaces a file, a directory replaces an
\* empty directory, nothing moves into itself or onto the other kind
sftp_can_posix_rename(fs, a, b) ==
    /\ sftp_parent_is_dir(fs, b)
    /\ IF P_isfile(fs, a) THEN ~P_isdir(fs, b)
       ELSE /\ P_isdir(fs, a)
            /\ a = b \/ (~P_isfile(fs, b) /\ ~Under(a, b)
                          /\ FilesUnder(fs, b) \cup DirsUnder(fs, b) = {})
\* SSH_FXP_RENAME: refused when the target exists
sftp_can_rename(fs, a, b) ==
    P_exists(fs, a) /\ sftp_parent_is_dir(fs, b) /\ ~P_exists(fs, b) /\ ~Under(a, b)
sftp_renamed(fs, a, b) == IF a = b THEN fs ELSE RenameTree(fs, a, b)

\* open(a, "r"), open(b, "w"), copyfileobj: whether a directory opens for
\* reading is up to the server; when it does, b is created or truncated
\* before the read fails
sftp_stream_copy(fs, a, b) ==
    IF ~P_exists(fs, a) THEN {Outcome("NotFound", {}, fs)}
    ELSE IF P_isdir(fs, a)
         THEN {Outcome("RemoteStoreError", {}, fs)}
              \cup (IF sftp_parent_is_dir(fs, b) /\ ~P_isdir(fs, b)
                    THEN {Outcome("RemoteStoreError", {}, Put(fs, b, Empty))} ELSE {})
    ELSE IF ~sftp_parent_is_dir(fs, b) THEN {Outcome("NotFound", {}, fs)}
    ELSE IF P_isdir(fs, b) THEN {Outcome("RemoteStoreError", {}, fs)}
    ELSE IF a = b THEN {Outcome("ok", {}, Put(fs, b, Empty))}
    ELSE {Outcome("ok", {}, Put(fs, b, fs.files[a]))}

\* the fallback of move: remove dst when overwriting, rename, else stream copy + remove
sftp_move_fallback(fs, a, b, overwrite) ==
    LET fs2 == IF overwrite /\ P_isfile(fs, b) THEN Del(fs, b) ELSE fs
    IN  IF sftp_can_rename(fs2, a, b) THEN {Outcome("ok", {}, sftp_renamed(fs2, a, b))}
        ELSE {IF o.res = "ok" THEN Outcome("ok", {}, Del(FS(o.files, o.dirs), a)) ELSE o :
                o \in sftp_stream_copy(fs2, a, b)}

\* posix_rename is an OpenSSH extension: a server may not offer it
SFTPBackend_move(fs, src, dst, overwrite) ==
    LET a == SFTPBackend_sftp_path(src)
        b == SFTPBackend_sftp_path(dst)
        fs1 == SFTPBackend_ensure_parent_dirs(fs, b)
    IN  IF ~P_exists(fs, a) THEN {Outcome("NotFound", {}, fs)}
        ELSE IF ~overwrite /\ P_exists(fs, b) THEN {Outcome("AlreadyExists", {}, fs)}
        ELSE (IF sftp_can_posix_rename(fs1, a, b) THEN {Outcome("ok", {}, sftp_renamed(fs1, a, b))}
              ELSE sftp_move_fallback(fs1, a, b, overwrite))
             \cup sftp_move_fallback(fs1, a, b, overwrite)

\* open(src, "r"), open(dst, "w") (which truncates dst), copyfileobj
SFTPBackend_copy(fs, src, dst, overwrite) ==
    LET a == SFTPBackend_sftp_path(src)
        b == SFTPBackend_sftp_path(dst)
        fs1 == SFTPBackend_ensure_parent_dirs(fs, b)
    IN  IF ~P_exists(fs, a) THEN {Outcome("NotFound", {}, fs)}
        ELSE IF ~overwrite /\ P_exists(fs, b) THEN {Outcome("AlreadyExists", {}, fs)}
        ELSE sftp_stream_copy(fs1, a, b)

(***************************************************************************)
(* Capability / CapabilitySet                                              *)
(***************************************************************************)
Capability == {"read", "write", "delete", "list", "move", "copy", "atomic_write", "glob",
               "recursive_list", "metadata"}

\* the capability sets the four adapters declare
DeclaredCapabilities(k) == IF k = "sftp" THEN Capability \ {"glob"} ELSE Capability

\* capability sets of Backend subclasses that declare less (a read-only and
\* a write-only variant, and one that declares nothing)
RestrictedCapabilities == {{}, {"read", "list", "metadata"},
                           {"write", "atomic_write", "delete", "move", "copy"}}

supports(capset, cap) == cap \in capset

require_nothing(capset, cap) == TRUE

\* CapabilitySet.require: TRUE when the call returns, FALSE when it raises
\* CapabilityNotSupported(capability=cap.value)
require(capset, cap) == cap \in capset

(***************************************************************************)
(* State                                                                   *)
(***************************************************************************)
VARIABLES
    kind,       \* which Backend class the Store wraps
    caps,       \* Backend.capabilities
    root,       \* Store._root
    files,      \* native storage: path -> content
    dirs,       \* native storage: real directories
    pc,         \* "idle", "returned" (a call has ended and its result is with the
                \* caller), or the position of the write_atomic in flight
    seen,       \* what a concurrent reader observed at the target during write_atomic
    last,       \* the Store call in progress or just ended: arguments, result,
                \* storage before it
    folder_calls, \* move and copy calls made so far with a folder as src or dst
    backends,   \* Registry._backends: backend-config name -> instance id (0: not cached)
    made,       \* Backend instances constructed so far, per backend-config name
    calls,      \* factory invocations so far, per backend-config name
    handed,     \* Stores returned by get_store: [profile, backend, instance, root]
    requested,  \* the get_store calls made so far, in order: [name, res]
    closes,     \* Registry.close calls so far
    reg,        \* the most recent Registry call and its result ("none": no call
                \* has been made on the Registry yet)
    config,     \* the RegistryConfig handed to Registry(...), kept as Registry._config
    built,      \* Registry.__init__: res "no" not run yet, "ok" returned, or the
                \* exception it raised with what its message names
    order,      \* the keys of Registry._backends in insertion order
    shut,       \* the most recent Registry.close: the cache it found, the backends
                \* whose close() it called, the ones whose close() raised
    alive,      \* the Backend of the third specification is constructed
    ssh_client, \* SFTPBackend._ssh_client: "none", "live" or "stale" (connection lost)
    sftp_client, \* SFTPBackend._sftp_client, likewise
    fs_instance, \* S3Backend._fs_instance, S3PyArrowBackend._s3fs_instance: "none", "made"
    pa_fs_instance, \* S3PyArrowBackend._pa_fs_instance
    outage,     \* the handshakes the server will still refuse (0: reachable)
    subsystem,  \* the server opens an SFTP channel on an established connection
    spc,        \* "idle", or "connecting": an SFTP operation is inside _connect
    attempts,   \* handshakes made by the _connect in progress or last ended
    ses,        \* the Backend call in progress or just ended
    closings,   \* Backend.close() calls so far
    block,      \* "in": inside a with Store(...) block
    scalls,     \* Backend calls so far
    links,      \* the symbolic links of the fourth specification: path -> target
    lcall,      \* the most recent LocalBackend call of the fourth specification
    lcalls,     \* its calls so far
    given,      \* the raw string handed to RemotePath(...)
    normed,     \* what RemotePath made of it, and of its own result, in order
    kcall,      \* the most recent Store.to_key call and its result
    tasks,      \* the calls of the concurrent callers: position and result of each
    peek,       \* what a concurrent reader found at src and dst of a move in flight
    clock       \* the writes the concurrent callers have completed so far

fsvars == <<kind, caps, root, files, dirs, pc, seen, last, folder_calls>>
regvars == <<backends, made, calls, handed, requested, closes, reg, config, built, order, shut>>
sessvars == <<alive, ssh_client, sftp_client, fs_instance, pa_fs_instance, outage, subsystem,
              spc, attempts, ses, closings, block, scalls>>
linkvars == <<links, lcall, lcalls>>
pathvars == <<given, normed, kcall>>
racevars == <<tasks, peek, clock>>
vars == <<kind, caps, root, files, dirs, pc, seen, last, folder_calls,
          backends, made, calls, handed, requested, closes, reg, config, built, order, shut,
          alive, ssh_client, sftp_client, fs_instance, pa_fs_instance, outage, subsystem,
          spc, attempts, ses, closings, block, scalls, links, lcall, lcalls,
          given, normed, kcall, tasks, peek, clock>>

Cur == FS(files, dirs)

(***************************************************************************)
(* Backend dispatch (the Store holds one Backend and calls its methods)    *)
(***************************************************************************)
Backend_exists(fs, path) ==
    CASE kind = "local" -> LocalBackend_exists(fs, path)
      [] kind = "s3" -> S3Backend_exists(fs, path)
      [] kind = "s3-pyarrow" -> S3PyArrowBackend_exists(fs, path)
      [] kind = "sftp" -> SFTPBackend_exists(fs, path)

Backend_is_file(fs, path) ==
    CASE kind = "local" -> LocalBackend_is_file(fs, path)
      [] kind = "s3" -> S3Backend_is_file(fs, path)
      [] kind = "s3-pyarrow" -> S3PyArrowBackend_is_file(fs, path)
      [] kind = "sftp" -> SFTPBackend_is_file(fs, path)

Backend_is_folder(fs, path) ==
    CASE kind = "local" -> LocalBackend_is_folder(fs, path)
      [] kind = "s3" -> S3Backend_is_folder(fs, path)
      [] kind = "s3-pyarrow" -> S3PyArrowBackend_is_folder(fs, path)
      [] kind = "sftp" -> SFTPBackend_is_folder(fs, path)

Backend_read_bytes(fs, path) ==
    CASE kind = "local" -> LocalBackend_read_bytes(fs, path)
      [] kind = "s3" -> S3Backend_read_bytes(fs, path)
      [] kind = "s3-pyarrow" -> S3PyArrowBackend_read_bytes(fs, path)
      [] kind = "sftp" -> SFTPBackend_read_bytes(fs, path)

Backend_write(fs, path, content, overwrite) ==
    CASE kind = "local" -> LocalBackend_write(fs, path, content, overwrite)
      [] kind = "s3" -> S3Backend_write(fs, path, content, overwrite)
      [] kind = "s3-pyarrow" -> S3PyArrowBackend_write(fs, path, content, overwrite)
      [] kind = "sftp" -> SFTPBackend_write(fs, path, content, overwrite)

Backend_delete(fs, path, missing_ok) ==
    CASE kind = "local" -> LocalBackend_delete(fs, path, missing_ok)
      [] kind = "s3" -> S3Backend_delete(fs, path, missing_ok)
      [] kind = "s3-pyarrow" -> S3PyArrowBackend_delete(fs, path, missing_ok)
      [] kind = "sftp" -> SFTPBackend_delete(fs, path, missing_ok)

Backend_delete_folder(fs, path, recursive, missing_ok) ==
    CASE kind = "local" -> LocalBackend_delete_folder(fs, path, recursive, missing_ok)
      [] kind = "s3" -> S3Backend_delete_folder(fs, path, recursive, missing_ok)
      [] kind = "s3-pyarrow" -> S3PyArrowBackend_delete_folder(fs, path, recursive, missing_ok)
      [] kind = "sftp" -> SFTPBackend_delete_folder(fs, path, recursive, missing_ok)

Backend_list_files(fs, path, recursive) ==
    CASE kind = "local" -> LocalBackend_list_files(fs, path, recursive)
      [] kind = "s3" -> S3Backend_list_files(fs, path, recursive)
      [] kind = "s3-pyarrow" -> S3PyArrowBackend_list_files(fs, path, recursive)
      [] kind = "sftp" -> SFTPBackend_list_files(fs, path, recursive)

Backend_list_folders(fs, path) ==
    CASE kind = "local" -> LocalBackend_list_folders(fs, path)
      [] kind = "s3" -> S3Backend_list_folders(fs, path)
      [] kind = "s3-pyarrow" -> S3PyArrowBackend_list_folders(fs, path)
      [] kind = "sftp" -> SFTPBackend_list_folders(fs, path)

Backend_get_file_info(fs, path) ==
    CASE kind = "local" -> LocalBackend_get_file_info(fs, path)
      [] kind = "s3" -> S3Backend_get_file_info(fs, path)
      [] kind = "s3-pyarrow" -> S3PyArrowBackend_get_file_info(fs, path)
      [] kind = "sftp" -> SFTPBackend_get_file_info(fs, path)

Backend_get_folder_info(fs, path) ==
    CASE kind = "local" -> LocalBackend_get_folder_info(fs, path)
      [] kind = "s3" -> S3Backend_get_folder_info(fs, path)
      [] kind = "s3-pyarrow" -> S3PyArrowBackend_get_folder_info(fs, path)
      [] kind = "sftp" -> SFTPBackend_get_folder_info(fs, path)

Backend_move(fs, src, dst, overwrite) ==
    CASE kind = "local" -> LocalBackend_move(fs, src, dst, overwrite)
      [] kind = "s3" -> S3Backend_move(fs, src, dst, overwrite)
      [] kind = "s3-pyarrow" -> S3PyArrowBackend_move(fs, src, dst, overwrite)
      [] kind = "sftp" -> SFTPBackend_move(fs, src, dst, overwrite)

Backend_copy(fs, src, dst, overwrite) ==
    CASE kind = "local" -> LocalBackend_copy(fs, src, dst, overwrite)
      [] kind = "s3" -> S3Backend_copy(fs, src, dst, overwrite)
      [] kind = "s3-pyarrow" -> S3PyArrowBackend_copy(fs, src, dst, overwrite)
      [] kind = "sftp" -> SFTPBackend_copy(fs, src, dst, overwrite)

(***************************************************************************)
(* Store: every method checks the capability, resolves the path against    *)
(* the root, and delegates to the Backend.                                 *)
(***************************************************************************)
\* CapabilityNotSupported carries the capability's name
Unsupported(cap, fs) == Outcome("CapabilityNotSupported", {cap}, fs)
Rejected(fs) == Outcome("InvalidPath", {}, fs)

Store_exists(fs, path) ==
    LET fp == full_path(root, path)
    IN  IF ~fp.ok THEN {Rejected(fs)} ELSE {Outcome("ok", {Backend_exists(fs, fp.path)}, fs)}

Store_is_file(fs, path) ==
    LET fp == full_path(root, path)
    IN  IF ~fp.ok THEN {Rejected(fs)} ELSE {Outcome("ok", {Backend_is_file(fs, fp.path)}, fs)}

Store_is_folder(fs, path) ==
    LET fp == full_path(root, path)
    IN  IF ~fp.ok THEN {Rejected(fs)} ELSE {Outcome("ok", {Backend_is_folder(fs, fp.path)}, fs)}

\* Store.read opens the stream Store.read_bytes drains: same check, same path
Store_read(fs, path) ==
    IF ~require(caps, "read") THEN {Unsupported("read", fs)}
    ELSE LET fp == require_file_path(root, path)
         IN  IF ~fp.ok THEN {Rejected(fs)} ELSE Backend_read_bytes(fs, fp.path)

Store_read_bytes(fs, path) ==
    IF ~require(caps, "read") THEN {Unsupported("read", fs)}
    ELSE LET fp == require_file_path(root, path)
         IN  IF ~fp.ok THEN {Rejected(fs)} ELSE Backend_read_bytes(fs, fp.path)

Store_write(fs, path, content, overwrite) ==
    IF ~require(caps, "write") THEN {Unsupported("write", fs)}
    ELSE LET fp == require_file_path(root, path)
         IN  IF ~fp.ok THEN {Rejected(fs)} ELSE Backend_write(fs, fp.path, content, overwrite)

Store_delete(fs, path, missing_ok) ==
    IF ~require(caps, "delete") THEN {Unsupported("delete", fs)}
    ELSE LET fp == require_file_path(root, path)
         IN  IF ~fp.ok THEN {Rejected(fs)} ELSE Backend_delete(fs, fp.path, missing_ok)

\* a delete_folder that takes the empty path for the store root, as the
\* listing operations do
Store_delete_folder_root(fs, path, recursive, missing_ok) ==
    IF ~require(caps, "delete") THEN {Unsupported("delete", fs)}
    ELSE LET fp == full_path(root, path)
         IN  IF ~fp.ok THEN {Rejected(fs)} ELSE Backend_delete_folder(fs, fp.path, recursive, missing_ok)

\* the empty path is refused before the capability is looked at
Store_delete_folder(fs, path, recursive, missing_ok) ==
    IF path = <<>> THEN {Rejected(fs)}
    ELSE IF ~require(caps, "delete") THEN {Unsupported("delete", fs)}
    ELSE LET fp == full_path(root, path)
         IN  IF ~fp.ok THEN {Rejected(fs)} ELSE Backend_delete_folder(fs, fp.path, recursive, missing_ok)

rebase_file_info(info) ==
    LET rel == strip_root(root, info.path)
    IN  IF ~rel.ok THEN [ok |-> FALSE, info |-> info]
        ELSE IF rel.path = info.path THEN [ok |-> TRUE, info |-> info]
        ELSE IF ~normalize(rel.path).ok THEN [ok |-> FALSE, info |-> info]
        ELSE [ok |-> TRUE, info |-> [info EXCEPT !.path = normalize(rel.path).path]]

rebase_folder_info(info) ==
    LET rel == strip_root(root, info.path)
    IN  IF ~rel.ok THEN [ok |-> FALSE, info |-> info]
        ELSE IF rel.path = info.path THEN [ok |-> TRUE, info |-> info]
        ELSE IF ~normalize(rel.path).ok THEN [ok |-> FALSE, info |-> info]
        ELSE [ok |-> TRUE, info |-> [info EXCEPT !.path = normalize(rel.path).path]]

\* the generator run to exhaustion: the infos it yields, or InvalidPath from
\* the first info that cannot be rebased
Store_list_files(fs, path, recursive) ==
    IF ~require(caps, "list") THEN {Unsupported("list", fs)}
    ELSE LET fp == full_path(root, path)
         IN  IF ~fp.ok THEN {Rejected(fs)}
             ELSE {IF o.res # "ok" THEN o
                   ELSE IF \E i \in o.out : ~rebase_file_info(i).ok
                        THEN Outcome("InvalidPath", {rebase_file_info(i).info : i \in {j \in o.out : rebase_file_info(j).ok}}, fs)
                   ELSE Outcome("ok", {rebase_file_info(i).info : i \in o.out}, fs)
                   : o \in Backend_list_files(fs, fp.path, recursive)}

Store_list_folders(fs, path) ==
    IF ~require(caps, "list") THEN {Unsupported("list", fs)}
    ELSE LET fp == full_path(root, path)
         IN  IF ~fp.ok THEN {Rejected(fs)} ELSE Backend_list_folders(fs, fp.path)

Store_get_file_info(fs, path) ==
    IF ~require(caps, "metadata") THEN {Unsupported("metadata", fs)}
    ELSE LET fp == require_file_path(root, path)
         IN  IF ~fp.ok THEN {Rejected(fs)}
             ELSE {IF o.res # "ok" THEN o
                   ELSE IF \E i \in o.out : ~rebase_file_info(i).ok THEN Rejected(fs)
                   ELSE Outcome("ok", {rebase_file_info(i).info : i \in o.out}, fs)
                   : o \in Backend_get_file_info(fs, fp.path)}

Store_get_folder_info(fs, path) ==
    IF ~require(caps, "metadata") THEN {Unsupported("metadata", fs)}
    ELSE LET fp == full_path(root, path)
         IN  IF ~fp.ok THEN {Rejected(fs)}
             ELSE {IF o.res # "ok" THEN o
                   ELSE IF \E i \in o.out : ~rebase_folder_info(i).ok THEN Rejected(fs)
                   ELSE Outcome("ok", {rebase_folder_info(i).info : i \in o.out}, fs)
                   : o \in Backend_get_folder_info(fs, fp.path)}

Store_move(fs, src, dst, overwrite) ==
    IF ~require(caps, "move") THEN {Unsupported("move", fs)}
    ELSE LET s == require_file_path(root, src)
             d == require_file_path(root, dst)
         IN  IF ~s.ok \/ ~d.ok THEN {Rejected(fs)} ELSE Backend_move(fs, s.path, d.path, overwrite)

Store_copy(fs, src, dst, overwrite) ==
    IF ~require(caps, "copy") THEN {Unsupported("copy", fs)}
    ELSE LET s == require_file_path(root, src)
             d == require_file_path(root, dst)
         IN  IF ~s.ok \/ ~d.ok THEN {Rejected(fs)} ELSE Backend_copy(fs, s.path, d.path, overwrite)

(***************************************************************************)
(* write_atomic.  On S3 it is the single PUT of write.  On the local       *)
(* backend and on SFTP it runs in steps: create a temporary file beside    *)
(* the target, fill it, rename it onto the target.  The operators below    *)
(* are the part of the call up to the creation of the temporary file       *)
(* (result "pending"); the remaining steps are actions.                    *)
(***************************************************************************)
\* tempfile.mkstemp(dir=full.parent)
LocalBackend_tmp_path(full) == rsplit_head(full) \o SL \o <<"~">>

\* f"{parent}/.~tmp.{name}.{uuid}"
SFTPBackend_tmp_path(sftp_path) == rsplit_head(sftp_path) \o SL \o <<"~">> \o rsplit_last(sftp_path)

LocalBackend_write_atomic(fs, path, content, overwrite) ==
    LET full == LocalBackend_resolve(path)
    IN  IF ~overwrite /\ P_exists(fs, full) THEN {Outcome("AlreadyExists", {}, fs)}
        ELSE IF AncFile(fs, full) THEN {Outcome("NativeError", {}, fs)}
        ELSE {Outcome("pending", {}, Put(MkDirs(fs, Ancestors(full)), LocalBackend_tmp_path(full), Empty))}

SFTPBackend_write_atomic(fs, path, content, overwrite) ==
    LET n == SFTPBackend_sftp_path(path)
        fs1 == SFTPBackend_ensure_parent_dirs(fs, n)
    IN  IF ~overwrite /\ P_exists(fs, n) THEN {Outcome("AlreadyExists", {}, fs)}
        ELSE IF ~sftp_parent_is_dir(fs1, n) THEN {Outcome("NotFound", {}, fs1)}
        ELSE {Outcome("pending", {}, Put(fs1, SFTPBackend_tmp_path(n), Empty))}

Backend_write_atomic(fs, path, content, overwrite) ==
    CASE kind = "local" -> LocalBackend_write_atomic(fs, path, content, overwrite)
      [] kind = "s3" -> S3Backend_write_atomic(fs, path, content, overwrite)
      [] kind = "s3-pyarrow" -> S3PyArrowBackend_write_atomic(fs, path, content, overwrite)
      [] kind = "sftp" -> SFTPBackend_write_atomic(fs, path, content, overwrite)

Store_write_atomic(fs, path, content, overwrite) ==
    IF ~require(caps, "atomic_write") THEN {Unsupported("atomic_write", fs)}
    ELSE LET fp == require_file_path(root, path)
         IN  IF ~fp.ok THEN {Rejected(fs)} ELSE Backend_write_atomic(fs, fp.path, content, overwrite)

(***************************************************************************)
(* Inputs of the calls                                                     *)
(***************************************************************************)
Paths == {<<>>, <<".", ".">>, <<"x">>, <<"d">>, <<"d", "/", "x">>}
Roots == {<<>>, <<"d">>}
Payloads == {Full(i) : i \in Contents}

NoFiles == [n \in {} |-> Empty]

\* the record of a call: op(path, dst, content, f1, f2) with f1 / f2 the flags
\* in the order of the signature; res and out are its result, pre the storage
\* it started from, fault whether the environment failed one of its steps,
\* stage the step at which it ended ("call" when it ended before any
\* temporary file was created)
NoCall == [op |-> "none", path |-> <<>>, dst |-> <<>>, content |-> Empty, f1 |-> FALSE, f2 |-> FALSE,
           res |-> "ok", out |-> {}, pre |-> FS(NoFiles, {}), fault |-> FALSE, stage |-> "call"]

NoObservation == [res |-> "none", out |-> {}]

\* the Registry of the second specification (see below): nothing constructed
BackendNames == {"main", "aux", "spare", "s3cfg", "badopts", "denied", "plug"}
NoRegistryCall == [op |-> "none", name |-> "", res |-> "ok"]
NoClose == [pre |-> [n \in BackendNames |-> 0], called |-> {}, raised |-> {}]
\* RegistryConfig(): no backends, no stores
Built(res, unknown, available) == [res |-> res, unknown |-> unknown, available |-> available]
EmptyConfig == [backends |-> [n \in {} |-> 0], stores |-> [n \in {} |-> 0]]

NoSessionCall ==
    [op |-> "none", path |-> <<>>, res |-> "ok", out |-> {}, connects |-> 0,
     issued |-> 0, reaped |-> {}, had |-> "none", lost |-> 0, exc |-> "none",
     content |-> Empty, closings |-> 0]

\* no Backend of the third specification
SessionIdle ==
    /\ alive = FALSE
    /\ ssh_client = "none"
    /\ sftp_client = "none"
    /\ fs_instance = "none"
    /\ pa_fs_instance = "none"
    /\ outage = 0
    /\ subsystem = TRUE
    /\ spc = "idle"
    /\ attempts = 0
    /\ ses = NoSessionCall
    /\ closings = 0
    /\ block = "out"
    /\ scalls = 0

NoLinkCall ==
    [op |-> "none", path |-> <<>>, flag |-> FALSE, res |-> "ok", out |-> {}, touched |-> {},
     pre |-> FS(NoFiles, {})]

\* no link
LinkIdle ==
    /\ links = [e \in {} |-> <<>>]
    /\ lcall = NoLinkCall
    /\ lcalls = 0

\* no RemotePath constructed, no Store.to_key called
NoKeyCall == [op |-> "none", native |-> <<>>, res |-> "ok", key |-> <<>>, pre |-> FS(NoFiles, {})]
PathIdle ==
    /\ given = <<>>
    /\ normed = <<>>
    /\ kcall = NoKeyCall

\* no concurrent caller
Callers == {1, 2}
NoTask ==
    [op |-> "none", pc |-> "idle", path |-> <<>>, dst |-> <<>>, content |-> Empty, ow |-> FALSE,
     res |-> "none", held |-> {}, rank |-> 0]
NoPeek == [stage |-> "none", src |-> {}, dst |-> {}]
RaceIdle ==
    /\ tasks = [c \in Callers |-> NoTask]
    /\ peek = NoPeek
    /\ clock = 0

RegistryIdle ==
    /\ backends = [n \in BackendNames |-> 0]
    /\ made = [n \in BackendNames |-> 0]
    /\ calls = [n \in BackendNames |-> 0]
    /\ handed = {}
    /\ requested = <<>>
    /\ closes = 0
    /\ reg = NoRegistryCall
    /\ order = <<>>
    /\ shut = NoClose

(***************************************************************************)
(* Specification of one Store over one Backend                             *)
(***************************************************************************)
Init ==
    /\ kind \in Kinds
    /\ caps \in {DeclaredCapabilities(kind)} \cup RestrictedCapabilities
    /\ root \in {store_init(r).path : r \in Roots}
    /\ files = NoFiles
    /\ dirs = IF kind \in {"local", "sftp"} THEN {NativeRoot(kind)} ELSE {}
    /\ pc = "idle"
    /\ seen = NoObservation
    /\ last = NoCall
    /\ folder_calls = 0
    /\ RegistryIdle
    /\ config = EmptyConfig
    /\ built = Built("no", "", {})
    /\ SessionIdle
    /\ LinkIdle
    /\ PathIdle
    /\ RaceIdle

\* a move or copy one of whose arguments names a folder
IsFolderArg(path) == full_path(root, path).ok /\ Backend_is_folder(Cur, full_path(root, path).path)
WithFolderArg(op, path, dst) == op \in {"move", "copy"} /\ (IsFolderArg(path) \/ IsFolderArg(dst))

\* a call that runs to completion in one step: one of its outcomes happens;
\* the calls with a folder argument are counted and bounded by MaxFolderCalls
Complete(op, path, dst, content, f1, f2, outcomes) ==
    /\ pc = "idle"
    /\ WithFolderArg(op, path, dst) => folder_calls < MaxFolderCalls
    /\ \E o \in outcomes :
        /\ files' = o.files
        /\ dirs' = o.dirs
        /\ last' = [op |-> op, path |-> path, dst |-> dst, content |-> content, f1 |-> f1, f2 |-> f2,
                    res |-> o.res, out |-> o.out, pre |-> Cur, fault |-> FALSE, stage |-> "call"]
    /\ pc' = "returned"
    /\ folder_calls' = folder_calls + (IF WithFolderArg(op, path, dst) THEN 1 ELSE 0)
    /\ UNCHANGED <<kind, caps, root, seen>>
    /\ UNCHANGED <<regvars, sessvars, linkvars, pathvars, racevars>>

\* the caller has the result (value or exception) and goes on to its next call
Return ==
    /\ pc = "returned"
    /\ pc' = "idle"
    /\ last' = NoCall
    /\ seen' = NoObservation
    /\ UNCHANGED <<folder_calls, kind, caps, root, files, dirs>>
    /\ UNCHANGED <<regvars, sessvars, linkvars, pathvars, racevars>>

Call_exists(path) == Complete("exists", path, <<>>, Empty, FALSE, FALSE, Store_exists(Cur, path))
Call_is_file(path) == Complete("is_file", path, <<>>, Empty, FALSE, FALSE, Store_is_file(Cur, path))
Call_is_folder(path) == Complete("is_folder", path, <<>>, Empty, FALSE, FALSE, Store_is_folder(Cur, path))
Call_read(path) == Complete("read", path, <<>>, Empty, FALSE, FALSE, Store_read(Cur, path))
Call_read_bytes(path) == Complete("read_bytes", path, <<>>, Empty, FALSE, FALSE, Store_read_bytes(Cur, path))

Call_write(path, content, overwrite) ==
    Complete("write", path, <<>>, content, overwrite, FALSE, Store_write(Cur, path, content, overwrite))

Call_delete(path, missing_ok) ==
    Complete("delete", path, <<>>, Empty, missing_ok, FALSE, Store_delete(Cur, path, missing_ok))

Call_delete_folder(path, recursive, missing_ok) ==
    Complete("delete_folder", path, <<>>, Empty, recursive, missing_ok,
             Store_delete_folder(Cur, path, recursive, missing_ok))

Call_list_files(path, recursive) ==
    Complete("list_files", path, <<>>, Empty, recursive, FALSE, Store_list_files(Cur, path, recursive))

Call_list_folders(path) ==
    Complete("list_folders", path, <<>>, Empty, FALSE, FALSE, Store_list_folders(Cur, path))

Call_get_file_info(path) ==
    Complete("get_file_info", path, <<>>, Empty, FALSE, FALSE, Store_get_file_info(Cur, path))

Call_get_folder_info(path) ==
    Complete("get_folder_info", path, <<>>, Empty, FALSE, FALSE, Store_get_folder_info(Cur, path))

Call_move(src, dst, overwrite) ==
    Complete("move", src, dst, Empty, overwrite, FALSE, Store_move(Cur, src, dst, overwrite))

Call_copy(src, dst, overwrite) ==
    Complete("copy", src, dst, Empty, overwrite, FALSE, Store_copy(Cur, src, dst, overwrite))

(***************************************************************************)
(* The steps of a write_atomic in flight (local and SFTP)                  *)
(***************************************************************************)
InFlight == pc \in {"tmp_open", "tmp_partial", "tmp_written", "fallback_remove", "fallback_rename"}

\* native path of the target of the call in flight, and of its temporary file
Target ==
    LET key == require_file_path(root, last.path).path
    IN  IF kind = "local" THEN LocalBackend_resolve(key) ELSE SFTPBackend_sftp_path(key)

Tmp == IF kind = "local" THEN LocalBackend_tmp_path(Target) ELSE SFTPBackend_tmp_path(Target)

Call_write_atomic(path, content, overwrite) ==
    /\ pc = "idle"
    /\ \E o \in Store_write_atomic(Cur, path, content, overwrite) :
        /\ files' = o.files
        /\ dirs' = o.dirs
        /\ pc' = IF o.res = "pending" THEN "tmp_open" ELSE "returned"
        /\ last' = [op |-> "write_atomic", path |-> path, dst |-> <<>>, content |-> content,
                    f1 |-> overwrite, f2 |-> FALSE, res |-> o.res, out |-> o.out, pre |-> Cur,
                    fault |-> FALSE, stage |-> "call"]
    /\ seen' = NoObservation
    /\ UNCHANGED <<folder_calls, kind, caps, root>>
    /\ UNCHANGED <<regvars, sessvars, linkvars, pathvars, racevars>>

\* how the call in flight ends: with result res and storage fs
Finish(res, fs, fault) ==
    /\ files' = fs.files
    /\ dirs' = fs.dirs
    /\ pc' = "returned"
    /\ last' = [last EXCEPT !.res = res, !.fault = fault, !.stage = pc]
    /\ UNCHANGED seen
    /\ UNCHANGED <<folder_calls, kind, caps, root>>
    /\ UNCHANGED <<regvars, sessvars, linkvars, pathvars, racevars>>

Advance(next_pc, fs) ==
    /\ files' = fs.files
    /\ dirs' = fs.dirs
    /\ pc' = next_pc
    /\ UNCHANGED <<folder_calls, kind, caps, root, last, seen>>
    /\ UNCHANGED <<regvars, sessvars, linkvars, pathvars, racevars>>

\* the except-branch of both adapters: remove the temporary file, re-raise
cleanup_tmp(fs) == IF P_isfile(fs, Tmp) THEN Del(fs, Tmp) ELSE fs

\* os.write(fd, data) / f.write(content): the data reaches the temporary
\* file in pieces
WriteAtomic_write_tmp ==
    \/ /\ pc = "tmp_open"
       /\ Advance("tmp_partial", Put(Cur, Tmp, Partial(last.content.data)))
    \/ /\ pc = "tmp_partial"
       /\ Advance("tmp_written", Put(Cur, Tmp, last.content))

\* os.replace(tmp_path, full): atomic, fails when the target is a directory
LocalBackend_os_replace ==
    /\ kind = "local"
    /\ pc = "tmp_written"
    /\ IF P_isdir(Cur, Target) THEN Finish("NativeError", cleanup_tmp(Cur), FALSE)
       ELSE Finish("ok", sftp_renamed(Cur, Tmp, Target), FALSE)

\* posix_rename(tmp_path, sftp_path): atomic where the server offers it;
\* any OSError from it enters the fallback
SFTPBackend_posix_rename(offered) ==
    /\ kind = "sftp"
    /\ pc = "tmp_written"
    /\ IF offered /\ sftp_can_posix_rename(Cur, Tmp, Target)
       THEN Finish("ok", sftp_renamed(Cur, Tmp, Target), FALSE)
       ELSE Advance("fallback_remove", Cur)

\* if overwrite: with suppress(OSError): remove(sftp_path)
SFTPBackend_fallback_remove ==
    /\ kind = "sftp"
    /\ pc = "fallback_remove"
    /\ Advance("fallback_rename", IF last.f1 /\ P_isfile(Cur, Target) THEN Del(Cur, Target) ELSE Cur)

\* rename(tmp_path, sftp_path): refuses an existing target
SFTPBackend_fallback_rename ==
    /\ kind = "sftp"
    /\ pc = "fallback_rename"
    /\ IF sftp_can_rename(Cur, Tmp, Target) THEN Finish("ok", sftp_renamed(Cur, Tmp, Target), FALSE)
       ELSE Finish("RemoteStoreError", cleanup_tmp(Cur), FALSE)

\* the step about to run raises (disk full, permission, server failure):
\* the temporary file is removed and the error propagates
WriteAtomic_fail ==
    /\ InFlight
    /\ pc # "fallback_remove"
    /\ \E res \in (IF kind = "local" THEN {"NativeError", "PermissionDenied"}
                   ELSE {"RemoteStoreError", "PermissionDenied"}) :
        Finish(res, cleanup_tmp(Cur), TRUE)

\* the process is killed, or the connection is lost, between two steps:
\* nothing more of the call runs
WriteAtomic_interrupt ==
    /\ InFlight
    /\ pc' = "crashed"
    /\ last' = [last EXCEPT !.res = "interrupted", !.stage = pc]
    /\ UNCHANGED <<folder_calls, kind, caps, root, files, dirs, seen>>
    /\ UNCHANGED <<regvars, sessvars, linkvars, pathvars, racevars>>

\* another client reads the target while the call is in flight
ConcurrentReader ==
    /\ InFlight
    /\ \E o \in Backend_read_bytes(Cur, require_file_path(root, last.path).path) :
        seen' = [res |-> o.res, out |-> o.out]
    /\ UNCHANGED <<folder_calls, kind, caps, root, files, dirs, pc, last>>
    /\ UNCHANGED <<regvars, sessvars, linkvars, pathvars, racevars>>

Next ==
    \/ Return
    \/ \E p \in Paths : Call_exists(p)
    \/ \E p \in Paths : Call_is_file(p)
    \/ \E p \in Paths : Call_is_folder(p)
    \/ \E p \in Paths : Call_read(p)
    \/ \E p \in Paths : Call_read_bytes(p)
    \/ \E p \in Paths, c \in Payloads, ow \in BOOLEAN : Call_write(p, c, ow)
    \/ \E p \in Paths, c \in Payloads, ow \in BOOLEAN : Call_write_atomic(p, c, ow)
    \/ \E p \in Paths, mo \in BOOLEAN : Call_delete(p, mo)
    \/ \E p \in Paths, r \in BOOLEAN, mo \in BOOLEAN : Call_delete_folder(p, r, mo)
    \/ \E p \in Paths, r \in BOOLEAN : Call_list_files(p, r)
    \/ \E p \in Paths : Call_list_folders(p)
    \/ \E p \in Paths : Call_get_file_info(p)
    \/ \E p \in Paths : Call_get_folder_info(p)
    \/ \E s \in Paths, d \in Paths, ow \in BOOLEAN : Call_move(s, d, ow)
    \/ \E s \in Paths, d \in Paths, ow \in BOOLEAN : Call_copy(s, d, ow)
    \/ WriteAtomic_write_tmp
    \/ LocalBackend_os_replace
    \/ \E offered \in BOOLEAN : SFTPBackend_posix_rename(offered)
    \/ SFTPBackend_fallback_remove
    \/ SFTPBackend_fallback_rename
    \/ WriteAtomic_fail
    \/ WriteAtomic_interrupt
    \/ ConcurrentReader

Spec == Init /\ [][Next]_vars

(***************************************************************************)
(* Registry (_registry.py) over one RegistryConfig (_config.py).           *)
(* A Backend instance is identified by its backend-config name and the     *)
(* ordinal of its construction for that name.                              *)
(***************************************************************************)
\* _BACKEND_FACTORIES once _register_builtin_backends has run and the caller
\* has registered a Backend subclass of its own with register_backend("plugin", ...)
BACKEND_FACTORIES == {"local", "plugin"}

\* RegistryConfig.backends.  options stands for what the constructor makes
\* of the keyword arguments: "ok" accepted, "mismatch" an argument mismatch
\* (TypeError), "unusable" a root LocalBackend.__init__ cannot create (OSError)
BackendConfigs ==
    [n \in BackendNames |->
        CASE n = "s3cfg" -> [type |-> "s3", options |-> "ok"]
          [] n = "badopts" -> [type |-> "local", options |-> "mismatch"]
          [] n = "denied" -> [type |-> "local", options |-> "unusable"]
          [] n = "plug" -> [type |-> "plugin", options |-> "ok"]
          [] OTHER -> [type |-> "local", options |-> "ok"]]

\* RegistryConfig.stores; backend config "spare" is referenced by no profile
StoreNames == {"top", "data", "other", "escape", "cloud", "typo", "locked", "ext"}
StoreProfiles ==
    [s \in StoreNames |->
        CASE s = "top" -> [backend |-> "main", root_path |-> <<>>]
          [] s = "data" -> [backend |-> "main", root_path |-> <<"d">>]
          [] s = "other" -> [backend |-> "aux", root_path |-> <<>>]
          [] s = "escape" -> [backend |-> "aux", root_path |-> <<".", ".">>]
          [] s = "cloud" -> [backend |-> "s3cfg", root_path |-> <<>>]
          [] s = "typo" -> [backend |-> "badopts", root_path |-> <<>>]
          [] s = "locked" -> [backend |-> "denied", root_path |-> <<"d">>]
          [] s = "ext" -> [backend |-> "plug", root_path |-> <<>>]]

Config == [backends |-> BackendConfigs, stores |-> StoreProfiles]
\* the same stores over a backends mapping that lacks "aux", which the
\* profiles "other" and "escape" reference
DanglingConfig ==
    [backends |-> [n \in BackendNames \ {"aux"} |-> BackendConfigs[n]], stores |-> StoreProfiles]
\* two backends, two profiles of one of them
SmallConfig ==
    [backends |-> [n \in {"main", "spare"} |-> BackendConfigs[n]],
     stores |-> [s \in {"top", "data"} |-> StoreProfiles[s]]]
\* the configurations a caller may hand to Registry(...); None stands for EmptyConfig
Configs == {Config, DanglingConfig, SmallConfig, EmptyConfig}
UnknownStore == "unknown_store"

\* a Registry whose constructor does not validate
validate_nothing(cfg) == TRUE

validate(cfg) ==
    \A s \in DOMAIN cfg.stores : cfg.stores[s].backend \in DOMAIN cfg.backends


\* factory(**cfg.options) for a registered type
factory(cfg) ==
    CASE cfg.options = "mismatch" -> "TypeError"
      [] cfg.options = "unusable" -> "NativeError"
      [] OTHER -> "ok"

Lookup(res, cache, nmade, ncalls) ==
    [res |-> res, backends |-> cache, made |-> nmade, calls |-> ncalls]

Constructed(cache, nmade, ncalls, name) ==
    Lookup("ok", [cache EXCEPT ![name] = nmade[name] + 1],
           [nmade EXCEPT ![name] = @ + 1], [ncalls EXCEPT ![name] = @ + 1])

\* a Registry that constructs a Backend on every lookup
get_backend_uncached(cache, nmade, ncalls, name) ==
    Constructed(cache, nmade, ncalls, name)

\* a Registry that constructs every configured backend on the first lookup
get_backend_eager(cache, nmade, ncalls, name) ==
    LET fresh == {n \in DOMAIN config.backends :
                    cache[n] = 0 /\ config.backends[n].type \in BACKEND_FACTORIES
                                 /\ factory(config.backends[n]) = "ok"}
    IN  Lookup(IF cache[name] # 0 \/ name \in fresh THEN "ok" ELSE "ValueError",
               [n \in BackendNames |-> IF n \in fresh THEN nmade[n] + 1 ELSE cache[n]],
               [n \in BackendNames |-> IF n \in fresh THEN nmade[n] + 1 ELSE nmade[n]],
               [n \in BackendNames |-> IF n \in fresh THEN ncalls[n] + 1 ELSE ncalls[n]])

\* a Registry that caches the instance before the constructor has accepted
\* its options
get_backend_cache_first(cache, nmade, ncalls, name) ==
    IF cache[name] # 0 THEN Lookup("ok", cache, nmade, ncalls)
    ELSE LET cfg == config.backends[name]
             taken == Constructed(cache, nmade, ncalls, name)
         IN  IF cfg.type \notin BACKEND_FACTORIES THEN Lookup("ValueError", cache, nmade, ncalls)
             ELSE IF factory(cfg) = "ok" THEN taken
             ELSE Lookup(IF factory(cfg) = "TypeError" THEN "ValueError" ELSE factory(cfg),
                         taken.backends, taken.made, taken.calls)

get_backend(cache, nmade, ncalls, name) ==
    IF cache[name] # 0 THEN Lookup("ok", cache, nmade, ncalls)
    ELSE IF name \notin DOMAIN config.backends THEN Lookup("KeyError", cache, nmade, ncalls)
    ELSE LET cfg == config.backends[name] IN
         IF cfg.type \notin BACKEND_FACTORIES THEN Lookup("ValueError", cache, nmade, ncalls)
         ELSE LET made_of == factory(cfg)
                  invoked == [ncalls EXCEPT ![name] = @ + 1]
              IN  CASE made_of = "ok" -> Constructed(cache, nmade, ncalls, name)
                    [] made_of = "TypeError" -> Lookup("ValueError", cache, nmade, invoked)
                    [] OTHER -> Lookup(made_of, cache, nmade, invoked)

RegistryCall(op, name, res) == [op |-> op, name |-> name, res |-> res]

\* Registry(config): the built-ins registered, the configuration validated,
\* the cache created empty; a ValueError of validate leaves no Registry
Registry_init ==
    /\ built.res = "no"
    /\ IF validate(config)
       THEN built' = Built("ok", "", {})
       ELSE \E s \in DOMAIN config.stores :
               /\ config.stores[s].backend \notin DOMAIN config.backends
               /\ built' = Built("ValueError", config.stores[s].backend, DOMAIN config.backends)
    /\ UNCHANGED <<backends, made, calls, handed, requested, closes, reg, config, order, shut>>
    /\ UNCHANGED <<fsvars, sessvars, linkvars, pathvars, racevars>>

Registry_get_store(name) ==
    /\ built.res = "ok"
    /\ Len(requested) + closes < MaxCalls
    /\ IF name \notin DOMAIN config.stores
       THEN /\ reg' = RegistryCall("get_store", name, "KeyError")
            /\ UNCHANGED <<backends, made, calls, handed, order>>
       ELSE LET profile == config.stores[name]
                found == get_backend(backends, made, calls, profile.backend)
                made_root == store_init(profile.root_path)
                res == IF found.res # "ok" THEN found.res
                       ELSE IF ~made_root.ok THEN "InvalidPath" ELSE "ok"
            IN  /\ backends' = found.backends
                /\ made' = found.made
                /\ calls' = found.calls
                /\ order' = IF backends[profile.backend] = 0 /\ found.backends[profile.backend] # 0
                            THEN Append(order, profile.backend) ELSE order
                /\ handed' = IF res = "ok"
                             THEN handed \cup {[profile |-> name, backend |-> profile.backend,
                                                instance |-> found.backends[profile.backend],
                                                root |-> made_root.path]}
                             ELSE handed
                /\ reg' = RegistryCall("get_store", name, res)
    /\ requested' = Append(requested, [name |-> name, res |-> reg'.res])
    /\ UNCHANGED <<closes, config, built, shut>>
    /\ UNCHANGED <<fsvars, sessvars, linkvars, pathvars, racevars>>

\* the backend configurations whose Backend class has a close() that can
\* raise: LocalBackend inherits the no-op of Backend.close, a registered
\* class of the caller's may do anything
CloseMayRaise == {n \in BackendNames : BackendConfigs[n].type = "plugin"}

\* for backend in self._backends.values(): backend.close(), then
\* self._backends.clear(); raising holds the names whose close() raises
close_all(cache, ord, raising) ==
    LET bad == {i \in 1..Len(ord) : ord[i] \in raising}
        stop == IF bad = {} THEN Len(ord) ELSE CHOOSE i \in bad : \A j \in bad : i <= j
    IN  [res |-> IF bad = {} THEN "ok" ELSE "NativeError",
         called |-> {ord[i] : i \in 1..stop},
         raised |-> IF bad = {} THEN {} ELSE {ord[stop]},
         backends |-> IF bad = {} THEN [n \in BackendNames |-> 0] ELSE cache,
         order |-> IF bad = {} THEN <<>> ELSE ord]

Closing(op, name, raising) ==
    /\ built.res = "ok"
    /\ Len(requested) + closes < MaxCalls
    /\ raising \subseteq {n \in CloseMayRaise : backends[n] # 0}
    /\ LET done == close_all(backends, order, raising)
       IN  /\ backends' = done.backends
           /\ order' = done.order
           /\ shut' = [pre |-> backends, called |-> done.called, raised |-> done.raised]
           /\ reg' = RegistryCall(op, name, done.res)
    /\ closes' = closes + 1
    /\ UNCHANGED <<made, calls, handed, requested, config, built>>
    /\ UNCHANGED <<fsvars, sessvars, linkvars, pathvars, racevars>>

Registry_close == \E raising \in SUBSET CloseMayRaise : Closing("close", "", raising)

\* Registry.__exit__(exc_type, exc_val, exc_tb) at the end of a with block;
\* leaving is "normal" or "exception", which the method does not look at
Registry_exit(leaving) ==
    \E raising \in SUBSET CloseMayRaise : Closing("exit", leaving, raising)

\* the state before Registry(config) runs, for each configuration
InitRegistry ==
    /\ config \in Configs
    /\ built = Built("no", "", {})
    /\ kind = "local"
    /\ caps = DeclaredCapabilities("local")
    /\ root = <<>>
    /\ files = NoFiles
    /\ dirs = {NativeRoot("local")}
    /\ pc = "idle"
    /\ seen = NoObservation
    /\ last = NoCall
    /\ folder_calls = 0
    /\ RegistryIdle
    /\ SessionIdle
    /\ LinkIdle
    /\ PathIdle
    /\ RaceIdle

NextRegistry ==
    \/ Registry_init
    \/ \E name \in StoreNames \cup {UnknownStore} : Registry_get_store(name)
    \/ Registry_close
    \/ \E leaving \in {"normal", "exception"} : Registry_exit(leaving)

SpecRegistry == InitRegistry /\ [][NextRegistry]_vars

(***************************************************************************)
(* Backend lifecycle: construction, the lazily created clients, the SFTP   *)
(* session with its liveness probe and bounded handshake retry, close(),   *)
(* and the with block of a Store (_sftp.py, _s3.py, _s3_pyarrow.py,        *)
(* _local.py, _store.py).  The server is reachable when outage = 0;         *)
(* outage > 0 is the number of handshakes it will still refuse.            *)
(***************************************************************************)
\* stop_after_attempt(3) of the retry around ssh.connect
MaxAttempts == 3
\* a retry policy that gives up two attempts later
stop_after_more(n) == n >= MaxAttempts + 2
\* stop=stop_after_attempt(3): n attempts have been made, no further one follows
stop_after_attempt(n) == n >= MaxAttempts
MaxOutage == 3
MaxSessionCalls == 3

\* what the retried ssh.connect raises when the server does not answer:
\* socket errors (OSError), paramiko.SSHException, EOFError
ConnectErrors == {"OSError", "SSHException", "EOFError"}
SessionOps == {"exists", "is_file", "is_folder", "list_files", "list_folders",
               "read_bytes", "write", "delete"}
ProbingOps == {"exists", "is_file", "is_folder"}
ListingOps == {"list_files", "list_folders"}
SessionPaths == {<<"x">>}
SessionPayloads == {Full(1)}

NoClients ==
    /\ ssh_client = "none"
    /\ sftp_client = "none"
    /\ fs_instance = "none"
    /\ pa_fs_instance = "none"

Clients(ssh, sftp, fs, pa) == [ssh |-> ssh, sftp |-> sftp, fs |-> fs, pa |-> pa]
Held == Clients(ssh_client, sftp_client, fs_instance, pa_fs_instance)
Hold(c) ==
    /\ ssh_client' = c.ssh
    /\ sftp_client' = c.sftp
    /\ fs_instance' = c.fs
    /\ pa_fs_instance' = c.pa

\* a Backend call as the caller sees it, with what it did to the session
SessionCall(op, path, res, out) ==
    [op |-> op, path |-> path, res |-> res, out |-> out,
     connects |-> 0,           \* _connect calls
     issued |-> 0,             \* times the file operation was issued on a session
     reaped |-> {},            \* the stale clients _connect closed
     had |-> sftp_client,      \* the SFTP client when the call began
     lost |-> outage,          \* the outage when the call began
     exc |-> "none",           \* what the session establishment raised
     content |-> Empty,        \* what a write is to store
     closings |-> closings]    \* Backend.close() calls before this call

\* a backend whose constructor connects
Backend_init_eager(k, out) ==
    [res |-> IF k = "sftp" /\ out >= 3 THEN "BackendUnavailable" ELSE "ok",
     clients |-> CASE k = "sftp" -> IF out >= 3 THEN Clients("none", "none", "none", "none")
                                    ELSE Clients("live", "live", "none", "none")
                   [] k = "s3" -> Clients("none", "none", "made", "none")
                   [] k = "s3-pyarrow" -> Clients("none", "none", "made", "made")
                   [] OTHER -> Clients("none", "none", "none", "none")]

\* __init__ of the four backends with valid arguments: the fields are set,
\* _ssh_client, _sftp_client, _fs_instance, _s3fs_instance and
\* _pa_fs_instance are None, whatever the endpoint does
Backend_init_clients(k, out) ==
    [res |-> "ok", clients |-> Clients("none", "none", "none", "none")]

\* SFTPBackend._is_connected without the stat(".") probe
SFTPBackend_is_connected_unprobed(sftp, ssh) == sftp # "none" /\ ssh # "none"

\* SFTPBackend._is_connected: both clients are there and stat(".") answers
SFTPBackend_is_connected(sftp, ssh) ==
    IF sftp = "none" \/ ssh = "none" THEN FALSE ELSE sftp = "live"

\* SFTPBackend._close_clients: close() under suppress(Exception), then None
SFTPBackend_close_clients(c) == Clients("none", "none", c.fs, c.pa)
Reaped(c) == (IF c.sftp # "none" THEN {"sftp"} ELSE {}) \cup (IF c.ssh # "none" THEN {"ssh"} ELSE {})

\* SFTPBackend._errors for an exception that is no RemoteStoreError and
\* carries no ENOENT, EACCES or EEXIST
SFTPBackend_errors(e) == IF e = "SSHException" THEN "BackendUnavailable" ELSE "RemoteStoreError"

\* what an SFTP operation makes of exception e raised by self._sftp or by
\* the call on the session: exists, is_file and is_folder answer False to
\* every OSError, the listings end on every OSError and wrap the rest,
\* the others leave it to _errors
SFTPBackend_raised(op, e) ==
    CASE op \in ProbingOps -> IF e = "OSError" THEN [res |-> "ok", out |-> {[answer |-> FALSE]}]
                              ELSE [res |-> SFTPBackend_errors(e), out |-> {}]
      [] op \in ListingOps -> IF e = "OSError" THEN [res |-> "ok", out |-> {}]
                              ELSE [res |-> "RemoteStoreError", out |-> {}]
      [] OTHER -> [res |-> SFTPBackend_errors(e), out |-> {}]

\* the values a call returns, as records: a bool, a folder name, a property
Answer(b) == [answer |-> b]
Folder(f) == [folder |-> f]
Property(v) == [property |-> v]

\* the operation itself on reachable storage
Performed(op, fs, path, content) ==
    CASE op = "exists" -> {Outcome("ok", {Answer(Backend_exists(fs, path))}, fs)}
      [] op = "is_file" -> {Outcome("ok", {Answer(Backend_is_file(fs, path))}, fs)}
      [] op = "is_folder" -> {Outcome("ok", {Answer(Backend_is_folder(fs, path))}, fs)}
      [] op = "list_files" -> Backend_list_files(fs, path, FALSE)
      [] op = "list_folders" -> {[o EXCEPT !.out = {Folder(f) : f \in o.out}] :
                                    o \in Backend_list_folders(fs, path)}
      [] op = "read_bytes" -> Backend_read_bytes(fs, path)
      [] op = "write" -> Backend_write(fs, path, content, TRUE)
      [] op = "delete" -> Backend_delete(fs, path, FALSE)

\* a backend whose operations use the client they find and create none
S3Clients_kept(k, op, c) == c

\* the clients of S3Backend (_fs) and S3PyArrowBackend (_s3fs, _pa_fs) an
\* operation creates on first use
S3Clients(k, op, c) ==
    IF k = "s3" THEN Clients(c.ssh, c.sftp, "made", c.pa)
    ELSE IF op \in {"read_bytes", "write"} THEN Clients(c.ssh, c.sftp, c.fs, "made")
    ELSE Clients(c.ssh, c.sftp, "made", c.pa)

\* the file operation issued on the session the _sftp property returned
Issue(call, path, content, session) ==
    IF session = "live"
    THEN \E o \in Performed(call.op, Cur, path, content) :
            /\ files' = o.files
            /\ dirs' = o.dirs
            /\ ses' = [call EXCEPT !.res = o.res, !.out = o.out, !.issued = @ + 1]
    ELSE \E e \in ConnectErrors :
            /\ UNCHANGED <<files, dirs>>
            /\ ses' = [call EXCEPT !.res = SFTPBackend_raised(call.op, e).res,
                                   !.out = SFTPBackend_raised(call.op, e).out,
                                   !.issued = @ + 1, !.exc = e]

\* the session establishment raised e: the operation handles it
Raise(call, e) ==
    /\ UNCHANGED <<files, dirs>>
    /\ ses' = [call EXCEPT !.res = SFTPBackend_raised(call.op, e).res,
                           !.out = SFTPBackend_raised(call.op, e).out,
                           !.exc = e]

\* the constructor
Backend_init ==
    /\ ~alive
    /\ LET made_of == Backend_init_clients(kind, outage)
       IN  /\ alive' = (made_of.res = "ok")
           /\ Hold(made_of.clients)
           /\ ses' = SessionCall("init", <<>>, made_of.res, {})
    /\ UNCHANGED <<outage, subsystem, spc, attempts, closings, block, scalls>>
    /\ UNCHANGED <<fsvars, regvars, linkvars, pathvars, racevars>>

\* the name and capabilities properties
Backend_property(p) ==
    /\ alive
    /\ spc = "idle"
    /\ scalls < MaxSessionCalls
    /\ scalls' = scalls + 1
    /\ ses' = SessionCall(p, <<>>, "ok", IF p = "name" THEN {Property(kind)}
                                            ELSE {Property(c) : c \in DeclaredCapabilities(kind)})
    /\ UNCHANGED <<ssh_client, sftp_client, fs_instance, pa_fs_instance, alive, outage,
                   subsystem, spc, attempts, closings, block>>
    /\ UNCHANGED <<fsvars, regvars, linkvars, pathvars, racevars>>

\* an operation up to its result or, on SFTP without a live session, up to
\* the first handshake of _connect
Backend_call(op, path, content) ==
    /\ alive
    /\ spc = "idle"
    /\ scalls < MaxSessionCalls
    /\ scalls' = scalls + 1
    /\ \/ /\ kind = "local"
          /\ \E o \in Performed(op, Cur, path, content) :
                /\ files' = o.files
                /\ dirs' = o.dirs
                /\ ses' = [SessionCall(op, path, o.res, o.out) EXCEPT !.issued = 1, !.content = content]
          /\ UNCHANGED <<ssh_client, sftp_client, fs_instance, pa_fs_instance, spc, attempts>>
       \/ /\ kind \in {"s3", "s3-pyarrow"}
          /\ Hold(S3Clients(kind, op, Held))
          /\ IF outage = 0
             THEN \E o \in Performed(op, Cur, path, content) :
                     /\ files' = o.files
                     /\ dirs' = o.dirs
                     /\ ses' = [SessionCall(op, path, o.res, o.out) EXCEPT !.issued = 1, !.content = content]
             ELSE \E r \in {"BackendUnavailable", "RemoteStoreError"} :
                     /\ UNCHANGED <<files, dirs>>
                     /\ ses' = [SessionCall(op, path, r, {}) EXCEPT !.issued = 1, !.content = content]
          /\ UNCHANGED <<spc, attempts>>
       \/ /\ kind = "sftp"
          /\ LET call == [SessionCall(op, path, "pending", {}) EXCEPT !.content = content]
             IN  IF SFTPBackend_is_connected(sftp_client, ssh_client)
                 THEN /\ Issue(call, path, content, sftp_client)
                      /\ UNCHANGED <<ssh_client, sftp_client, fs_instance, pa_fs_instance, spc, attempts>>
                 ELSE /\ Hold(SFTPBackend_close_clients(Held))
                      /\ ses' = [call EXCEPT !.connects = 1, !.reaped = Reaped(Held)]
                      /\ spc' = "connecting"
                      /\ attempts' = 0
                      /\ UNCHANGED <<files, dirs>>
    /\ UNCHANGED <<alive, outage, subsystem, closings, block>>
    /\ UNCHANGED <<kind, caps, root, pc, seen, last, folder_calls>>
    /\ UNCHANGED <<regvars, linkvars, pathvars, racevars>>

\* one ssh.connect of _do_connect; after it either the retry goes on, or
\* the last attempt's exception is raised, or the session is opened and
\* the operation runs
Handshake ==
    /\ spc = "connecting"
    /\ attempts' = attempts + 1
    /\ LET call == ses
           content == ses.content
       IN  IF outage > 0
           THEN /\ outage' = outage - 1
                /\ UNCHANGED <<ssh_client, sftp_client, fs_instance, pa_fs_instance>>
                /\ IF stop_after_attempt(attempts + 1)
                   THEN /\ spc' = "idle"
                        /\ \E e \in ConnectErrors : Raise(call, e)
                   ELSE UNCHANGED <<spc, ses, files, dirs>>
           ELSE /\ UNCHANGED outage
                /\ spc' = "idle"
                /\ IF subsystem
                   THEN /\ Hold(Clients("live", "live", fs_instance, pa_fs_instance))
                        /\ Issue(call, ses.path, content, "live")
                   ELSE /\ Hold(Clients("live", "none", fs_instance, pa_fs_instance))
                        /\ Raise(call, "SSHException")
    /\ UNCHANGED <<alive, subsystem, closings, block, scalls>>
    /\ UNCHANGED <<kind, caps, root, pc, seen, last, folder_calls>>
    /\ UNCHANGED <<regvars, linkvars, pathvars, racevars>>

\* close() of a backend that takes a client for granted
Backend_close_clients_unguarded(k, c) ==
    [res |-> IF k \in {"s3", "s3-pyarrow"} /\ c.fs = "none" THEN "NativeError" ELSE "ok",
     clients |-> Clients("none", "none", "none", "none")]

\* close(): the no-op of Backend for LocalBackend, S3Backend.close,
\* S3PyArrowBackend.close, SFTPBackend.close
Backend_close_clients(k, c) ==
    [res |-> "ok",
     clients |-> CASE k = "local" -> c
                   [] k = "s3" -> IF c.fs # "none" THEN Clients(c.ssh, c.sftp, "none", c.pa) ELSE c
                   [] k = "s3-pyarrow" -> Clients(c.ssh, c.sftp, "none", "none")
                   [] k = "sftp" -> SFTPBackend_close_clients(c)]

Backend_close ==
    /\ alive
    /\ spc = "idle"
    /\ scalls < MaxSessionCalls
    /\ scalls' = scalls + 1
    /\ LET done == Backend_close_clients(kind, Held)
       IN  /\ Hold(done.clients)
           /\ ses' = SessionCall("close", <<>>, done.res, {})
    /\ closings' = closings + 1
    /\ UNCHANGED <<alive, outage, subsystem, spc, attempts, block>>
    /\ UNCHANGED <<fsvars, regvars, linkvars, pathvars, racevars>>

\* a Store whose __exit__ does not close
Store_exit_close_skipped(k, c) == [res |-> "ok", clients |-> c, calls |-> 0]

\* Store.__exit__ -> Store.close -> self._backend.close()
Store_exit_close(k, c) ==
    [res |-> Backend_close_clients(k, c).res, clients |-> Backend_close_clients(k, c).clients,
     calls |-> 1]

\* with Store(backend) as store: __enter__ returns the Store
Store_enter ==
    /\ alive
    /\ spc = "idle"
    /\ block = "out"
    /\ scalls < MaxSessionCalls
    /\ block' = "in"
    /\ ses' = SessionCall("enter", <<>>, "ok", {})
    /\ UNCHANGED <<ssh_client, sftp_client, fs_instance, pa_fs_instance, alive, outage,
                   subsystem, spc, attempts, closings, scalls>>
    /\ UNCHANGED <<fsvars, regvars, linkvars, pathvars, racevars>>

\* the block is left, at its end or by the exception the last operation in
\* it raised, and Python calls __exit__
Store_exit(leaving) ==
    /\ block = "in"
    /\ spc = "idle"
    /\ leaving = "exception" => ses.op \in SessionOps /\ ses.res # "ok"
    /\ LET done == Store_exit_close(kind, Held)
       IN  /\ Hold(done.clients)
           /\ closings' = closings + done.calls
           /\ ses' = SessionCall("exit", <<>>, done.res, {Property(leaving)})
    /\ block' = "out"
    /\ scalls' = scalls + 1
    /\ UNCHANGED <<alive, outage, subsystem, spc, attempts>>
    /\ UNCHANGED <<fsvars, regvars, linkvars, pathvars, racevars>>

\* the network: the connection of the session drops
Drop ==
    /\ spc = "idle"
    /\ sftp_client = "live"
    /\ sftp_client' = "stale"
    /\ ssh_client' = "stale"
    /\ UNCHANGED <<fs_instance, pa_fs_instance, alive, outage, subsystem, spc, attempts,
                   ses, closings, block, scalls>>
    /\ UNCHANGED <<fsvars, regvars, linkvars, pathvars, racevars>>

\* the network: the server stops answering for n handshakes, or answers again
Outage(n) ==
    /\ spc = "idle"
    /\ kind # "local"
    /\ outage # n
    /\ outage' = n
    /\ UNCHANGED <<ssh_client, sftp_client, fs_instance, pa_fs_instance, alive, subsystem,
                   spc, attempts, ses, closings, block, scalls>>
    /\ UNCHANGED <<fsvars, regvars, linkvars, pathvars, racevars>>

InitSession ==
    /\ kind \in Kinds
    /\ caps = DeclaredCapabilities(kind)
    /\ root = <<>>
    /\ files = NoFiles
    /\ dirs = IF kind \in {"local", "sftp"} THEN {NativeRoot(kind)} ELSE {}
    /\ pc = "idle"
    /\ seen = NoObservation
    /\ last = NoCall
    /\ folder_calls = 0
    /\ RegistryIdle
    /\ config = EmptyConfig
    /\ built = Built("no", "", {})
    /\ NoClients
    /\ alive = FALSE
    /\ outage \in IF kind = "local" THEN {0} ELSE 0..MaxOutage
    /\ subsystem \in IF kind = "sftp" THEN BOOLEAN ELSE {TRUE}
    /\ spc = "idle"
    /\ attempts = 0
    /\ ses = NoSessionCall
    /\ closings = 0
    /\ block = "out"
    /\ scalls = 0
    /\ LinkIdle
    /\ PathIdle
    /\ RaceIdle

NextSession ==
    \/ Backend_init
    \/ \E p \in {"name", "capabilities"} : Backend_property(p)
    \/ \E op \in SessionOps, path \in SessionPaths, content \in SessionPayloads :
          Backend_call(op, IF op \in ListingOps THEN <<>> ELSE path,
                       IF op = "write" THEN content ELSE Empty)
    \/ Handshake
    \/ Backend_close
    \/ Store_enter
    \/ \E leaving \in {"normal", "exception"} : Store_exit(leaving)
    \/ Drop
    \/ \E n \in 0..MaxOutage : Outage(n)

SpecSession == InitSession /\ [][NextSession]_vars

\* _do_connect is a loop that runs on: a handshake in progress is followed
\* by its outcome
SpecSessionFair == SpecSession /\ WF_attempts(Handshake)

(***************************************************************************)
(* LocalBackend over a root directory that holds a symbolic link           *)
(* (_local.py, _resolve).  The file system besides the root has a          *)
(* directory with one file in it; the link, made by somebody else, points  *)
(* there or into the root.                                                 *)
(***************************************************************************)
MaxLinkCalls == 3
OutsideDir == <<"/", "o">>
OutsideFile == <<"/", "o", "/", "s">>
LinkPath == LocalRoot \o SL \o <<"l">>
LinkTargets == {OutsideDir, OutsideFile, LocalRoot \o SL \o <<"d">>, LocalRoot \o SL \o <<"x">>}
LinkArgs == {<<>>, <<"x">>, <<"d">>, <<"d", "/", "x">>, <<"l">>, <<"l", "/", "x">>}
LinkOps == {"exists", "is_file", "is_folder", "read_bytes", "write", "delete", "delete_folder",
            "list_files", "list_folders"}

\* Path.resolve(): a link on the way is replaced by its target
realpath(lnk, p) ==
    IF \E e \in DOMAIN lnk : InTree(e, p)
    THEN LET e == CHOOSE e \in DOMAIN lnk : InTree(e, p)
         IN  lnk[e] \o SubSeq(p, Len(e) + 1, Len(p))
    ELSE p

\* Path.relative_to(self._root) succeeds
relative_to_root(full) == InTree(LocalRoot, full)

\* LocalBackend._resolve over the links: the canonical path, and InvalidPath
\* (ok FALSE) when it is not inside the root
LocalBackend_resolve_links(lnk, path) ==
    LET resolved == realpath(lnk, LocalBackend_resolve(path))
    IN  [ok |-> relative_to_root(resolved), full |-> resolved]

\* the links among the entries iterdir() or rglob("*") of full yields;
\* rglob does not descend through a link
LinksIn(lnk, full, recursive) ==
    {e \in DOMAIN lnk : IF recursive THEN Under(full, e) ELSE IsChild(full, e)}

\* LocalBackend.list_files over the links: item.is_file() and item.stat()
\* follow the link of an entry
LocalBackend_list_files_links(fs, lnk, full, recursive) ==
    LET plain == LocalBackend_list_files(fs, LocalBackend_to_key(full), recursive)
        linked == {e \in LinksIn(lnk, full, recursive) : P_isfile(fs, lnk[e])}
    IN  IF ~P_isdir(fs, full) THEN plain
        ELSE {[o EXCEPT !.out = @ \cup {FileInfo(LocalBackend_to_key(e), fs.files[lnk[e]]) : e \in linked}] :
                 o \in plain}

\* LocalBackend.list_folders over the links: item.is_dir() follows the link
LocalBackend_list_folders_links(fs, lnk, full) ==
    LET plain == LocalBackend_list_folders(fs, LocalBackend_to_key(full))
        linked == {e \in LinksIn(lnk, full, FALSE) : P_isdir(fs, lnk[e])}
    IN  IF ~P_isdir(fs, full) THEN plain
        ELSE {[o EXCEPT !.out = @ \cup {rsplit_last(e) : e \in linked}] : o \in plain}

\* the operation on the canonical path
OnCanonical(op, fs, lnk, full, content, flag) ==
    LET key == LocalBackend_to_key(full)
    IN  CASE op = "exists" -> {Outcome("ok", {LocalBackend_exists(fs, key)}, fs)}
          [] op = "is_file" -> {Outcome("ok", {LocalBackend_is_file(fs, key)}, fs)}
          [] op = "is_folder" -> {Outcome("ok", {LocalBackend_is_folder(fs, key)}, fs)}
          [] op = "read_bytes" -> LocalBackend_read_bytes(fs, key)
          [] op = "write" -> LocalBackend_write(fs, key, content, flag)
          [] op = "delete" -> LocalBackend_delete(fs, key, flag)
          [] op = "delete_folder" -> LocalBackend_delete_folder(fs, key, flag, FALSE)
          [] op = "list_files" -> LocalBackend_list_files_links(fs, lnk, full, flag)
          [] op = "list_folders" -> LocalBackend_list_folders_links(fs, lnk, full)

\* the paths whose content or metadata the operation reads or changes:
\* the canonical path of its argument, for a listing of a directory the
\* entries too, each link among them followed by is_file(), is_dir(), stat()
Touched(op, fs, lnk, full, flag) ==
    IF op \in {"list_files", "list_folders"} /\ P_isdir(fs, full)
    THEN {full} \cup (IF op = "list_files" /\ flag THEN FilesUnder(fs, full) \cup DirsUnder(fs, full)
                      ELSE FilesIn(fs, full) \cup DirsIn(fs, full))
                \cup {lnk[e] : e \in {e \in LinksIn(lnk, full, op = "list_files" /\ flag) :
                                         P_exists(fs, lnk[e])}}
    ELSE {full}

LinkCall(op, path, flag, res, out, touched) ==
    [op |-> op, path |-> path, flag |-> flag, res |-> res, out |-> out, touched |-> touched,
     pre |-> Cur]

LocalBackend_call(op, path, content, flag) ==
    /\ lcalls < MaxLinkCalls
    /\ lcalls' = lcalls + 1
    /\ LET r == LocalBackend_resolve_links(links, path)
       IN  IF ~r.ok
           THEN /\ lcall' = LinkCall(op, path, flag, "InvalidPath", {}, {})
                /\ UNCHANGED <<files, dirs>>
           ELSE \E o \in OnCanonical(op, Cur, links, r.full, content, flag) :
                   /\ files' = o.files
                   /\ dirs' = o.dirs
                   /\ lcall' = LinkCall(op, path, flag, o.res, o.out,
                                        Touched(op, Cur, links, r.full, flag))
    /\ UNCHANGED links
    /\ UNCHANGED <<kind, caps, root, pc, seen, last, folder_calls>>
    /\ UNCHANGED <<regvars, sessvars, pathvars, racevars>>

InitLinks ==
    /\ kind = "local"
    /\ caps = DeclaredCapabilities("local")
    /\ root = <<>>
    /\ files = [n \in {OutsideFile} |-> Full(2)]
    /\ dirs = {LocalRoot, OutsideDir}
    /\ pc = "idle"
    /\ seen = NoObservation
    /\ last = NoCall
    /\ folder_calls = 0
    /\ RegistryIdle
    /\ config = EmptyConfig
    /\ built = Built("no", "", {})
    /\ SessionIdle
    /\ links \in {[e \in {LinkPath} |-> t] : t \in LinkTargets}
    /\ lcall = NoLinkCall
    /\ lcalls = 0
    /\ PathIdle
    /\ RaceIdle

NextLinks ==
    \E op \in LinkOps, path \in LinkArgs, content \in SessionPayloads, flag \in BOOLEAN :
        /\ op = "delete_folder" => path # <<>>
        /\ op \in {"exists", "is_file", "is_folder", "read_bytes", "list_folders"} => ~flag
        /\ LocalBackend_call(op, path, content, flag)

SpecLinks == InitLinks /\ [][NextLinks]_vars

(***************************************************************************)
(* Path values: RemotePath(raw) (_path.py) and Store.to_key (_store.py)    *)
(* over the to_key of each Backend.  The character "NUL" stands for the    *)
(* null byte.                                                              *)
(***************************************************************************)
MaxRawLen == 3
RawAlphabet == {"a", ".", "/", "\\", "NUL"}
RawStrings == UNION {[1..n -> RawAlphabet] : n \in 0..MaxRawLen}

\* what follows the native root in the paths handed to to_key: the root
\* itself, paths below it, and a sibling that only shares its characters
KeyTails == {<<>>, <<"/", "x">>, <<"/", "d">>, <<"/", "d", "/", "x">>, <<"/", "d", "d", "/", "x">>, <<"x">>}
Natives == {NativeRoot(kind) \o t : t \in KeyTails} \cup {<<"x">>, <<"d">>, <<"d", "/", "x">>}
KeyRoots == {<<>>, <<"d">>}

\* self._backend.to_key(path): LocalBackend, S3PyArrowBackend and
\* SFTPBackend define to_key; S3Backend and the Backend base class do not,
\* so the attribute lookup fails
Backend_to_key(native_path) ==
    CASE kind = "local" -> [res |-> "ok", key |-> LocalBackend_to_key(native_path)]
      [] kind = "s3" -> [res |-> "AttributeError", key |-> <<>>]
      [] kind = "s3-pyarrow" -> [res |-> "ok", key |-> S3PyArrowBackend_to_key(native_path)]
      [] kind = "sftp" -> [res |-> "ok", key |-> SFTPBackend_to_key(native_path)]

\* Store.to_key: backend.to_key, then _strip_root
Store_to_key(path) ==
    LET backend_rel == Backend_to_key(path)
        stripped == strip_root(root, backend_rel.key)
    IN  IF backend_rel.res # "ok" THEN backend_rel
        ELSE IF ~stripped.ok THEN [res |-> "InvalidPath", key |-> <<>>]
        ELSE [res |-> "ok", key |-> stripped.path]

\* RemotePath(given)
RemotePath_init ==
    /\ normed = <<>>
    /\ normed' = <<normalize(given)>>
    /\ UNCHANGED <<given, kcall>>
    /\ UNCHANGED <<fsvars, regvars, sessvars, linkvars, racevars>>

\* RemotePath(str(p)) for the RemotePath p just made
RemotePath_again ==
    /\ Len(normed) = 1
    /\ normed[1].ok
    /\ normed' = Append(normed, normalize(normed[1].path))
    /\ UNCHANGED <<given, kcall>>
    /\ UNCHANGED <<fsvars, regvars, sessvars, linkvars, racevars>>

Call_to_key(path) ==
    /\ kcall' = [op |-> "to_key", native |-> path, res |-> Store_to_key(path).res,
                 key |-> Store_to_key(path).key, pre |-> Cur]
    /\ UNCHANGED <<given, normed>>
    /\ UNCHANGED <<fsvars, regvars, sessvars, linkvars, racevars>>

InitPaths ==
    /\ kind \in Kinds
    /\ caps = DeclaredCapabilities(kind)
    /\ root \in KeyRoots
    /\ files = NoFiles
    /\ dirs = IF kind \in {"local", "sftp"} THEN {NativeRoot(kind)} ELSE {}
    /\ pc = "idle"
    /\ seen = NoObservation
    /\ last = NoCall
    /\ folder_calls = 0
    /\ RegistryIdle
    /\ config = EmptyConfig
    /\ built = Built("no", "", {})
    /\ SessionIdle
    /\ LinkIdle
    /\ given \in RawStrings
    /\ normed = <<>>
    /\ kcall = NoKeyCall
    /\ RaceIdle

NextPaths ==
    \/ RemotePath_init
    \/ RemotePath_again
    \/ \E n \in Natives : Call_to_key(n)

SpecPaths == InitPaths /\ [][NextPaths]_vars

(***************************************************************************)
(* Specification of concurrent callers on one Backend: two callers whose   *)
(* write and move calls advance one backend request at a time, and a       *)
(* reader at their side.  A move runs with the reader only.                *)
(***************************************************************************)
MaxRaceWrites == 3
RacePaths == {<<"x">>, <<"d">>, <<"d", "/", "x">>}

\* what a read_bytes of the path returns: its content, or nothing when it raises
Readable(fs, path) == UNION {o.out : o \in Backend_read_bytes(fs, path)}

\* one conditional put (write of a backend that refuses an existing target itself)
write_body_conditional(fs, path, content) == Backend_write(fs, path, content, FALSE)

\* the statements of write after its existence check: parents, then the bytes
write_body(fs, path, content) == Backend_write(fs, path, content, TRUE)

Task(c, t) == tasks' = [tasks EXCEPT ![c] = t]
\* a caller is in a move, or has not yet taken the result of one
Moving == \E c \in Callers : tasks[c].op = "move"
Alone(c) == \A o \in Callers \ {c} : tasks[o] = NoTask

\* write(path, content, overwrite): "if not overwrite and exists(path): raise"
Write_begin(c, path, content, overwrite) ==
    /\ tasks[c] = NoTask
    /\ ~Moving
    /\ clock < MaxRaceWrites
    /\ Task(c, [NoTask EXCEPT !.op = "write", !.path = path, !.content = content, !.ow = overwrite,
                              !.pc = IF ~overwrite /\ Backend_exists(Cur, path) THEN "done" ELSE "checked",
                              !.res = IF ~overwrite /\ Backend_exists(Cur, path)
                                      THEN "AlreadyExists" ELSE "none"])
    /\ UNCHANGED <<peek, clock>>
    /\ UNCHANGED <<fsvars, regvars, sessvars, linkvars, pathvars>>

\* the rest of write, on the storage as it is by now
Write_store(c) ==
    /\ tasks[c].op = "write"
    /\ tasks[c].pc = "checked"
    /\ \E o \in write_body(Cur, tasks[c].path, tasks[c].content) :
        /\ files' = o.files
        /\ dirs' = o.dirs
        /\ Task(c, [tasks[c] EXCEPT !.pc = "done", !.res = o.res, !.rank = clock + 1])
    /\ clock' = clock + 1
    /\ UNCHANGED <<kind, caps, root, pc, seen, last, folder_calls, peek>>
    /\ UNCHANGED <<regvars, sessvars, linkvars, pathvars>>

\* S3PyArrowBackend.move, first with-block: the two s3fs existence checks
Move_begin(c, src, dst, overwrite) ==
    /\ kind = "s3-pyarrow"
    /\ tasks[c] = NoTask
    /\ Alone(c)
    /\ LET checked ==
               IF ~s3fs_exists(Cur, S3PyArrowBackend_s3_path(src)) THEN "NotFound"
               ELSE IF ~overwrite /\ s3fs_exists(Cur, S3PyArrowBackend_s3_path(dst))
                    THEN "AlreadyExists"
               ELSE "none"
       IN  Task(c, [NoTask EXCEPT !.op = "move", !.path = src, !.dst = dst, !.ow = overwrite,
                                  !.held = Readable(Cur, src),
                                  !.pc = IF checked = "none" THEN "move_checked" ELSE "done",
                                  !.res = checked])
    /\ UNCHANGED <<peek, clock>>
    /\ UNCHANGED <<fsvars, regvars, sessvars, linkvars, pathvars>>

\* second with-block: pyarrow copy_file(src, dst)
Move_copy(c) ==
    /\ tasks[c].pc = "move_checked"
    /\ \E o \in s3_copy_object(Cur, S3PyArrowBackend_pa_path(tasks[c].path),
                               S3PyArrowBackend_pa_path(tasks[c].dst)) :
        /\ files' = o.fs.files
        /\ dirs' = o.fs.dirs
        /\ Task(c, [tasks[c] EXCEPT !.pc = IF o.ok THEN "move_copied" ELSE "done",
                                    !.res = IF o.ok THEN "none" ELSE o.err])
    /\ UNCHANGED <<kind, caps, root, pc, seen, last, folder_calls, peek, clock>>
    /\ UNCHANGED <<regvars, sessvars, linkvars, pathvars>>

\* third with-block: s3fs rm(src)
Move_delete(c) ==
    /\ tasks[c].pc = "move_copied"
    /\ files' = Del(Cur, S3PyArrowBackend_s3_path(tasks[c].path)).files
    /\ Task(c, [tasks[c] EXCEPT !.pc = "done", !.res = "ok"])
    /\ UNCHANGED <<kind, caps, root, dirs, pc, seen, last, folder_calls, peek, clock>>
    /\ UNCHANGED <<regvars, sessvars, linkvars, pathvars>>

\* the request of the step at hand fails (connection, credentials): the
\* with-block maps the exception, the move ends there
Step_fail(c) ==
    /\ tasks[c].pc \in {"move_checked", "move_copied"}
    /\ Task(c, [tasks[c] EXCEPT !.pc = "done", !.res = "RemoteStoreError"])
    /\ UNCHANGED <<peek, clock>>
    /\ UNCHANGED <<fsvars, regvars, sessvars, linkvars, pathvars>>

\* a concurrent reader reads src and dst of the move in flight
Peek(c) ==
    /\ tasks[c].pc \in {"move_checked", "move_copied"}
    /\ peek' = [stage |-> tasks[c].pc, src |-> Readable(Cur, tasks[c].path),
                dst |-> Readable(Cur, tasks[c].dst)]
    /\ UNCHANGED <<tasks, clock>>
    /\ UNCHANGED <<fsvars, regvars, sessvars, linkvars, pathvars>>

\* the caller has its result and goes on to its next call
Task_return(c) ==
    /\ tasks[c].pc = "done"
    /\ Task(c, NoTask)
    /\ peek' = NoPeek
    /\ UNCHANGED clock
    /\ UNCHANGED <<fsvars, regvars, sessvars, linkvars, pathvars>>

InitRace ==
    /\ kind \in Kinds
    /\ caps = DeclaredCapabilities(kind)
    /\ root = <<>>
    /\ files = NoFiles
    /\ dirs = IF kind \in {"local", "sftp"} THEN {NativeRoot(kind)} ELSE {}
    /\ pc = "idle"
    /\ seen = NoObservation
    /\ last = NoCall
    /\ folder_calls = 0
    /\ RegistryIdle
    /\ config = EmptyConfig
    /\ built = Built("no", "", {})
    /\ SessionIdle
    /\ LinkIdle
    /\ PathIdle
    /\ RaceIdle

NextRace ==
    \/ \E c \in Callers, path \in RacePaths, content \in Contents, overwrite \in BOOLEAN :
            Write_begin(c, path, Full(content), overwrite)
    \/ \E c \in Callers : Write_store(c)
    \/ \E c \in Callers, src \in RacePaths, dst \in RacePaths, overwrite \in BOOLEAN :
            Move_begin(c, src, dst, overwrite)
    \/ \E c \in Callers : Move_copy(c)
    \/ \E c \in Callers : Move_delete(c)
    \/ \E c \in Callers : Step_fail(c)
    \/ \E c \in Callers : Peek(c)
    \/ \E c \in Callers : Task_return(c)

SpecRace == InitRace /\ [][NextRace]_vars

(***************************************************************************)
(* Specification of two Stores on one shared Backend: the caller holds     *)
(* both and turns from one to the other between calls; root is the root    *)
(* of the Store in use.                                                    *)
(***************************************************************************)
SharedRoots == {<<"d">>, <<"d", "d">>}
SharedPaths == {<<>>, <<"x">>, <<".", ".">>}
OtherRoot == CHOOSE r \in SharedRoots : r # root

\* the caller turns to the Store of the other profile (Registry.get_store
\* hands out Stores of one Backend with different root_path)
Switch ==
    /\ pc = "idle"
    /\ root' = OtherRoot
    /\ UNCHANGED <<kind, caps, files, dirs, pc, seen, last, folder_calls>>
    /\ UNCHANGED <<regvars, sessvars, linkvars, pathvars, racevars>>

InitShared ==
    /\ kind \in Kinds
    /\ caps = DeclaredCapabilities(kind)
    /\ root \in SharedRoots
    /\ files = NoFiles
    /\ dirs = IF kind \in {"local", "sftp"} THEN {NativeRoot(kind)} ELSE {}
    /\ pc = "idle"
    /\ seen = NoObservation
    /\ last = NoCall
    /\ folder_calls = 0
    /\ RegistryIdle
    /\ config = EmptyConfig
    /\ built = Built("no", "", {})
    /\ SessionIdle
    /\ LinkIdle
    /\ PathIdle
    /\ RaceIdle

NextShared ==
    \/ Return
    \/ Switch
    \/ \E p \in SharedPaths : Call_exists(p)
    \/ \E p \in SharedPaths : Call_is_file(p)
    \/ \E p \in SharedPaths : Call_is_folder(p)
    \/ \E p \in SharedPaths : Call_read(p)
    \/ \E p \in SharedPaths : Call_read_bytes(p)
    \/ \E p \in SharedPaths : Call_list_folders(p)
    \/ \E p \in SharedPaths : Call_get_file_info(p)
    \/ \E p \in SharedPaths : Call_get_folder_info(p)
    \/ \E p \in SharedPaths, c \in Payloads, ow \in BOOLEAN : Call_write(p, c, ow)
    \/ \E p \in SharedPaths, c \in Payloads, ow \in BOOLEAN : Call_write_atomic(p, c, ow)
    \/ \E p \in SharedPaths, mo \in BOOLEAN : Call_delete(p, mo)
    \/ \E p \in SharedPaths, r \in BOOLEAN, mo \in BOOLEAN : Call_delete_folder(p, r, mo)
    \/ \E p \in SharedPaths, r \in BOOLEAN : Call_list_files(p, r)
    \/ \E s \in SharedPaths, d \in SharedPaths, ow \in BOOLEAN : Call_move(s, d, ow)
    \/ \E s \in SharedPaths, d \in SharedPaths, ow \in BOOLEAN : Call_copy(s, d, ow)
    \/ WriteAtomic_write_tmp
    \/ LocalBackend_os_replace
    \/ \E offered \in BOOLEAN : SFTPBackend_posix_rename(offered)
    \/ SFTPBackend_fallback_remove
    \/ SFTPBackend_fallback_rename
    \/ WriteAtomic_fail
    \/ ConcurrentReader

SpecShared == InitShared /\ [][NextShared]_vars

(***************************************************************************)
(* Properties.  A call is judged in the state where it has returned:       *)
(* last holds its arguments and result, last.pre the storage before it,    *)
(* files / dirs the storage after it.                                      *)
(***************************************************************************)
Returned(ops) == pc = "returned" /\ last.op \in ops

\* the backend key of the path argument of the call, when the Store accepts it
Key == require_file_path(root, last.path)
DstKey == require_file_path(root, last.dst)

Gated(cap) == ~supports(caps, cap)

\* what Store.read_bytes(path) returns on storage fs: the content, or nothing
Reads(fs, path, content) == Store_read_bytes(fs, path) = {Outcome("ok", {content}, fs)}

ContentAt(fs, key) == CHOOSE c \in UNION {o.out : o \in Backend_read_bytes(fs, key)} : TRUE

\* C1 (overwrite law, every backend): when p already holds a file, write and
\* write_atomic with overwrite=false raise AlreadyExists and leave the
\* storage as it was, so p still reads as before; with overwrite=true, and no
\* failure of the environment, they succeed and read_bytes(p) then returns
\* the new content.
C1_OverwriteLaw ==
    (/\ Returned({"write", "write_atomic"})
     /\ ~Gated("write") /\ ~Gated("atomic_write") /\ ~Gated("read")
     /\ Key.ok
     /\ Backend_is_file(last.pre, Key.path)
     /\ ~last.fault)
    => IF ~last.f1
       THEN /\ last.res = "AlreadyExists"
            /\ Cur = last.pre
            /\ Reads(Cur, last.path, ContentAt(last.pre, Key.path))
       ELSE /\ last.res = "ok"
            /\ Reads(Cur, last.path, last.content)

\* an atomic overwrite of a file that held other content has succeeded
C1_Witness ==
    /\ Returned({"write_atomic"})
    /\ last.f1
    /\ last.res = "ok"
    /\ Key.ok
    /\ Backend_is_file(last.pre, Key.path)
    /\ ContentAt(last.pre, Key.path) # last.content
    /\ Reads(Cur, last.path, last.content)

\* a write_atomic that got as far as its temporary file and then did not
\* complete: it raised, or it was interrupted
Uncompleted ==
    /\ last.op = "write_atomic"
    /\ last.stage # "call"
    /\ \/ pc = "crashed"
       \/ pc = "returned" /\ last.res # "ok"

\* C2 (atomic-write law): after a write_atomic(p, c) that was interrupted or
\* failed at a step after the creation of its temporary file, read_bytes(p)
\* raises NotFound when nothing existed at p before the call, and returns the
\* complete prior content when p held a file.
C2_AtomicWriteLaw ==
    (Uncompleted /\ Key.ok)
    => IF Backend_is_file(last.pre, Key.path)
       THEN Backend_read_bytes(Cur, Key.path) = {Outcome("ok", {ContentAt(last.pre, Key.path)}, Cur)}
       ELSE Backend_exists(last.pre, Key.path)
            \/ \A o \in Backend_read_bytes(Cur, Key.path) : o.res = "NotFound"

\* C3 (a reader concurrent with one overwriting write_atomic): whatever a
\* concurrent read of p observed while write_atomic(p, c_new, overwrite=true)
\* over the file c_old was in flight is the complete c_old or the complete
\* c_new.
C3_ReaderSeesOldOrNew ==
    (/\ InFlight
     /\ last.f1
     /\ Backend_is_file(last.pre, Key.path)
     /\ seen # NoObservation)
    => /\ seen.res = "ok"
       /\ seen.out \subseteq {ContentAt(last.pre, Key.path), last.content}

\* backend key k lies in the folder with backend key base (the root when empty)
Within(k, base) == base = <<>> \/ k = base \/ StartsWith(k, base \o SL)

\* C4 (round trip of listed paths): every FileInfo.path yielded by
\* Store.list_files(path), recursive or not, is a store-relative key of a file
\* in the listed folder (root + "/" + key names it, so the root was stripped
\* exactly once), and read_bytes on the same Store accepts it verbatim and
\* returns the content of the file that was listed.
C4_ListRoundTrip ==
    (Returned({"list_files"}) /\ ~Gated("list") /\ ~Gated("read"))
    => \A info \in last.out :
        LET k == require_file_path(root, info.path)
        IN  /\ k.ok
            /\ Backend_is_file(Cur, k.path)
            /\ Within(k.path, full_path(root, last.path).path)
            /\ Reads(Cur, info.path, ContentAt(Cur, k.path))
            /\ info.size = Size(ContentAt(Cur, k.path))

\* a recursive listing of the whole Store, under a non-empty root, has
\* yielded a key that itself begins with the root's name
C4_Witness ==
    /\ Returned({"list_files"})
    /\ last.res = "ok"
    /\ root = <<"d">>
    /\ last.path = <<>>
    /\ last.f1
    /\ \E info \in last.out : info.path = <<"d", "/", "x">> /\ Reads(Cur, info.path, Full(2))

\* the capability each gated Store operation requires
Required ==
    [op \in {"read", "read_bytes", "write", "write_atomic", "delete", "delete_folder", "list_files",
             "list_folders", "get_file_info", "get_folder_info", "move", "copy"} |->
        CASE op \in {"read", "read_bytes"} -> "read"
          [] op = "write" -> "write"
          [] op = "write_atomic" -> "atomic_write"
          [] op \in {"delete", "delete_folder"} -> "delete"
          [] op \in {"list_files", "list_folders"} -> "list"
          [] op \in {"get_file_info", "get_folder_info"} -> "metadata"
          [] op = "move" -> "move"
          [] op = "copy" -> "copy"]

Refused(cap) == last.res = "CapabilityNotSupported" /\ last.out = {cap} /\ Cur = last.pre

\* C5 as claimed (capability gating): every gated Store operation called on a
\* backend that lacks the required capability raises CapabilityNotSupported
\* carrying that capability's name and leaves the storage unchanged.
C5_GatingEveryCall ==
    (Returned(DOMAIN Required) /\ Gated(Required[last.op])) => Refused(Required[last.op])

\* C5 as the code has it: the same, except that delete_folder with the empty
\* path raises InvalidPath (likewise without touching the storage) whether or
\* not DELETE is declared.
C5_Gating ==
    (Returned(DOMAIN Required) /\ Gated(Required[last.op]))
    => IF last.op = "delete_folder" /\ last.path = <<>>
       THEN last.res = "InvalidPath" /\ Cur = last.pre
       ELSE Refused(Required[last.op])

\* a read was refused for the missing READ capability while files exist
C5_Witness ==
    /\ Returned({"read_bytes"})
    /\ Gated("read")
    /\ last.res = "CapabilityNotSupported"
    /\ Key.ok
    /\ Backend_is_file(Cur, Key.path)

\* the Stores the Registry has returned for profiles referencing backend-config n
StoresOf(n) == {s \in handed : s.backend = n}

\* C6: over any sequence of get_store calls on one Registry (no close in
\* between), for every backend-config name N for which a Store has been
\* returned: all Stores returned for profiles referencing N wrap one Backend
\* instance, the cached one, and the factory for N was invoked exactly once,
\* which constructed that one instance.
C6_Sharing ==
    closes = 0
    => \A n \in BackendNames :
          StoresOf(n) # {}
          => /\ \A s, t \in StoresOf(n) : s.instance = t.instance
             /\ \A s \in StoresOf(n) : s.instance = backends[n]
             /\ calls[n] = 1
             /\ made[n] = 1

\* two profiles of "main" and one of "aux" have been served, "aux" after a
\* get_store on it that failed, and the last call repeated a served profile
C6_Witness ==
    /\ closes = 0
    /\ {"top", "data"} \subseteq {s.profile : s \in StoresOf("main")}
    /\ StoresOf("aux") # {}
    /\ requested[1] = [name |-> "escape", res |-> "InvalidPath"]
    /\ reg = RegistryCall("get_store", "data", "ok")

\* some get_store call so far named a profile referencing n / and returned a Store
Asked(n) ==
    \E i \in 1..Len(requested) : /\ requested[i].name \in DOMAIN config.stores
                                 /\ config.stores[requested[i].name].backend = n
Served(n) ==
    \E i \in 1..Len(requested) : /\ requested[i].name \in DOMAIN config.stores
                                 /\ config.stores[requested[i].name].backend = n
                                 /\ requested[i].res = "ok"
NothingConstructed == \A n \in BackendNames : made[n] = 0 /\ calls[n] = 0 /\ backends[n] = 0

\* C7 as claimed: the new Registry has constructed nothing; a Backend for N is
\* in the cache only after a get_store call for a profile referencing N has
\* succeeded; a backend no requested profile references is never constructed.
C7_LazinessAsClaimed ==
    /\ reg.op = "none" => NothingConstructed
    /\ \A n \in BackendNames : backends[n] # 0 => Served(n)
    /\ \A n \in BackendNames : ~Asked(n) => made[n] = 0 /\ calls[n] = 0

\* C7 (amended): the new Registry has constructed nothing; a Backend for N is
\* in the cache only after a get_store call for a profile referencing N has
\* been made, whether or not that call went on to succeed; a backend no
\* requested profile references is never constructed.
C7_Laziness ==
    /\ reg.op = "none" => NothingConstructed
    /\ \A n \in BackendNames : backends[n] # 0 => Asked(n)
    /\ \A n \in BackendNames : ~Asked(n) => made[n] = 0 /\ calls[n] = 0

\* "aux" was cached by a get_store that then failed on the profile's root
\* path, while "main" and "spare", which nobody asked for, were not constructed
C7_Witness ==
    /\ reg = RegistryCall("get_store", "escape", "InvalidPath")
    /\ backends["aux"] # 0
    /\ ~Served("aux")
    /\ made["main"] = 0
    /\ made["spare"] = 0

\* the store-relative or backend keys that are proper ancestors of a key
KeyAncestors(key) == {SubSeq(key, 1, i - 1) : i \in {j \in 1..Len(key) : key[j] = "/"}}
FileAbove(fs, key) == \E a \in KeyAncestors(key) : Backend_is_file(fs, a)

\* native path of a backend key
Native(key) ==
    CASE kind = "local" -> LocalBackend_resolve(key)
      [] kind = "sftp" -> SFTPBackend_sftp_path(key)
      [] kind = "s3" -> S3Backend_s3_path(key)
      [] kind = "s3-pyarrow" -> S3PyArrowBackend_s3_path(key)

FilesUnchanged == files = last.pre.files

\* every stored file other than the one at backend key `key` is as before the call
OthersUnchanged(key) ==
    /\ DOMAIN files \ {Native(key)} = DOMAIN last.pre.files \ {Native(key)}
    /\ \A n \in DOMAIN files \ {Native(key)} : files[n] = last.pre.files[n]

\* src and dst of the call are file paths: neither was a folder before the call
FileArgs == ~Backend_is_folder(last.pre, Key.path) /\ ~Backend_is_folder(last.pre, DstKey.path)

MoveCall == Returned({"move"}) /\ ~Gated("move") /\ ~Gated("read") /\ Key.ok /\ DstKey.ok /\ FileArgs

CopyCall == Returned({"copy"}) /\ ~Gated("copy") /\ ~Gated("read") /\ Key.ok /\ DstKey.ok /\ FileArgs

\* C9 (copy of a file): NotFound when src is absent, AlreadyExists when dst
\* exists and overwrite is false; a copy that raises leaves all files
\* unchanged; a copy that returns leaves read_bytes(dst) equal to the content
\* of src, src with the content it had, and every path other than dst
\* unchanged.
C9_Copy ==
    CopyCall
    => /\ ~Backend_exists(last.pre, Key.path) => last.res = "NotFound"
       /\ (Backend_exists(last.pre, Key.path) /\ Backend_exists(last.pre, DstKey.path) /\ ~last.f1)
          => last.res = "AlreadyExists"
       /\ last.res # "ok" => FilesUnchanged
       /\ last.res = "ok"
          => /\ Reads(Cur, last.dst, ContentAt(last.pre, Key.path))
             /\ Reads(Cur, last.path, ContentAt(last.pre, Key.path))
             /\ OthersUnchanged(DstKey.path)

DeleteCall == Returned({"delete"}) /\ ~Gated("delete") /\ Key.ok

\* C10 (delete of a file): an existing file is removed (it is no file
\* afterwards); when nothing exists at path, missing_ok=false raises NotFound
\* and missing_ok=true returns silently, and no path is changed.
C10_Delete ==
    DeleteCall
    => IF Backend_is_file(last.pre, Key.path)
       THEN last.res = "ok" /\ ~Backend_is_file(Cur, Key.path)
       ELSE ~Backend_exists(last.pre, Key.path)
            => /\ last.res = (IF last.f1 THEN "ok" ELSE "NotFound")
               /\ FilesUnchanged

\* the backend key of a native path, and the storage as a whole left as it was
KeyOf(n) == SubSeq(n, Len(NativeRoot(kind)) + 2, Len(n))
StorageUnchanged == files = last.pre.files /\ dirs = last.pre.dirs

\* what lies under the folder argument of the call before the call
Inside == FilesUnder(last.pre, Native(Key.path)) \cup DirsUnder(last.pre, Native(Key.path))

DeleteFolderCall == Returned({"delete_folder"}) /\ ~Gated("delete") /\ Key.ok

CallKeys ==
    {full_path(store_init(r).path, p).path :
        r \in Roots, p \in {q \in Paths : q # <<>> /\ normalize(q).ok}}
ProbeKeys == CallKeys \cup UNION {KeyAncestors(k) : k \in CallKeys}

\* some stored object key starts with key + "/"
PrefixInUse(fs, key) == \E n \in DOMAIN fs.files : StartsWith(n, Native(key) \o SL)

OnS3 == kind \in {"s3", "s3-pyarrow"}

\* a successful write or write_atomic adds the one object it was asked to write
NoMarkerObjects ==
    (Returned({"write", "write_atomic"}) /\ last.res = "ok" /\ Key.ok)
    => DOMAIN files = DOMAIN last.pre.files \cup {Native(Key.path)}

\* after a successful delete of the last object under a prefix, the prefix is no folder
LastObjectGone ==
    (Returned({"delete"}) /\ last.res = "ok" /\ Key.ok)
    => \A k \in ProbeKeys :
          FilesUnder(last.pre, Native(k)) = {Native(Key.path)} => ~Backend_is_folder(Cur, k)

\* C12 as claimed (S3 and S3-hybrid): in every state is_folder(p) is true
\* exactly when some stored object key starts with p + "/"; a write creates
\* no marker object; deleting the last object under a prefix makes is_folder
\* of the prefix false.
C12_VirtualFoldersAsClaimed ==
    OnS3
    => /\ \A k \in ProbeKeys : Backend_is_folder(Cur, k) <=> PrefixInUse(Cur, k)
       /\ NoMarkerObjects
       /\ LastObjectGone

\* C12 (amended): in every state, for every non-empty p, is_folder(p) is true
\* exactly when some stored object key starts with p + "/" and no object is
\* stored at the key p itself; a write creates no marker object; deleting
\* the last object under a prefix makes is_folder of the prefix false.
C12_VirtualFolders ==
    OnS3
    => /\ \A k \in ProbeKeys :
            Backend_is_folder(Cur, k) <=> (PrefixInUse(Cur, k) /\ Native(k) \notin DOMAIN files)
       /\ dirs = {}
       /\ NoMarkerObjects
       /\ LastObjectGone

\* the last object under a prefix that was a folder has just been deleted
C12_Witness ==
    /\ OnS3
    /\ Returned({"delete"}) /\ last.res = "ok" /\ Key.ok
    /\ \E k \in ProbeKeys : /\ Backend_is_folder(last.pre, k)
                            /\ FilesUnder(last.pre, Native(k)) = {Native(Key.path)}
                            /\ ~Backend_is_folder(Cur, k)

RealFolders == kind \in {"local", "sftp"}

\* the folders of the storage before the call that are still folders
StillFolder(n) == Backend_is_folder(Cur, KeyOf(n))

\* after a successful write to a nested path every ancestor is a folder
NestedWriteMakesFolders ==
    (Returned({"write", "write_atomic"}) /\ last.res = "ok" /\ Key.ok)
    => \A a \in KeyAncestors(Key.path) : Backend_is_folder(Cur, a)

\* no folder goes away with a file deleted from it
FolderOutlivesFiles ==
    (Returned({"delete"}) /\ last.res = "ok") => \A n \in last.pre.dirs : StillFolder(n)

\* C13 as claimed (local and SFTP): a successful write to a nested path makes
\* every ancestor a folder; a folder is still a folder after its last file
\* is deleted; and no call other than delete_folder, finished or in flight,
\* makes a folder disappear.
C13_RealFoldersAsClaimed ==
    RealFolders
    => /\ NestedWriteMakesFolders
       /\ FolderOutlivesFiles
       /\ (pc # "idle" /\ last.op # "delete_folder") => \A n \in last.pre.dirs : StillFolder(n)

\* C13 (amended): as above, except that a folder also disappears through a
\* move whose src is the folder itself or a folder that contains it.
C13_RealFolders ==
    RealFolders
    => /\ NestedWriteMakesFolders
       /\ FolderOutlivesFiles
       /\ (pc # "idle" /\ last.op # "delete_folder")
          => \A n \in last.pre.dirs :
                \/ StillFolder(n)
                \/ last.op = "move" /\ Key.ok /\ InTree(Native(Key.path), n)

\* the only file of a folder has just been deleted and the folder is still there
C13_Witness ==
    /\ RealFolders
    /\ Returned({"delete"}) /\ last.res = "ok" /\ Key.ok
    /\ \E k \in ProbeKeys : /\ FilesUnder(last.pre, Native(k)) = {Native(Key.path)}
                            /\ FilesUnder(Cur, Native(k)) = {}
                            /\ Backend_is_folder(Cur, k)

\* the Store methods that take the path of a file, and a call of one of them
\* with an empty path (for move and copy: an empty src or an empty dst)
FileOps == {"read", "read_bytes", "write", "write_atomic", "delete", "get_file_info", "move", "copy"}
EmptyFilePath == last.path = <<>> \/ (last.op \in {"move", "copy"} /\ last.dst = <<>>)
EmptyFilePathCall == pc # "idle" /\ last.op \in FileOps /\ EmptyFilePath

\* C14 as claimed: every file-targeted Store operation called with an empty
\* path raises InvalidPath and leaves the storage unchanged.
C14_EmptyFilePathAsClaimed ==
    EmptyFilePathCall => pc = "returned" /\ last.res = "InvalidPath" /\ StorageUnchanged

\* C14 (amended): every file-targeted Store operation called with an empty
\* path raises InvalidPath, or CapabilityNotSupported when the backend does
\* not declare the capability the operation requires, and leaves the storage
\* unchanged.
C14_EmptyFilePath ==
    EmptyFilePathCall
    => /\ pc = "returned"
       /\ last.res = (IF Gated(Required[last.op]) THEN "CapabilityNotSupported" ELSE "InvalidPath")
       /\ StorageUnchanged

\* a move of an existing file to the empty path was refused
C14_Witness ==
    /\ Returned({"move"})
    /\ last.dst = <<>>
    /\ Key.ok /\ Backend_is_file(last.pre, Key.path)
    /\ last.res = "InvalidPath"
    /\ files = last.pre.files

\* the folder the Store is rooted at is a folder of the storage fs
RootPresent(fs) == Backend_is_folder(fs, root)

\* C15: delete_folder("") raises InvalidPath whatever recursive and
\* missing_ok are, on every backend and whatever capabilities it declares,
\* and leaves the storage as it was; and on the backends with real folders
\* no call, finished or in flight, removes the folder the Store is rooted at.
C15_RootNotDeletable ==
    /\ (Returned({"delete_folder"}) /\ last.path = <<>>)
       => last.res = "InvalidPath" /\ StorageUnchanged
    /\ (RealFolders /\ pc # "idle" /\ RootPresent(last.pre)) => RootPresent(Cur)

\* a recursive delete_folder("") was refused by a Store with a non-empty root
\* that holds files
C15_Witness ==
    /\ Returned({"delete_folder"})
    /\ last.path = <<>> /\ last.f1
    /\ root # <<>>
    /\ RootPresent(last.pre)
    /\ FilesUnder(Cur, Native(root)) # {}
    /\ last.res = "InvalidPath"

\* a folder or listing operation called with the empty path by a Store that
\* holds a file, on a backend that declares what the operation requires
RootOps == {"exists", "is_folder", "list_files", "list_folders", "get_folder_info"}
RootCall(ops) ==
    /\ Returned(ops)
    /\ last.path = <<>>
    /\ last.op \in DOMAIN Required => ~Gated(Required[last.op])
    /\ FilesUnder(last.pre, Native(root)) # {}
    /\ ~Backend_is_file(last.pre, root)

\* the call succeeds; exists and is_folder answer TRUE
RootAnswer == last.res = "ok" /\ (last.op \in {"exists", "is_folder"} => last.out = {TRUE})

\* exists, is_folder, list_files and list_folders take the empty path for the
\* folder the Store is rooted at
RootOpsButFolderInfo == RootCall(RootOps \ {"get_folder_info"}) => RootAnswer

\* C16: exists, is_folder, list_files, list_folders and get_folder_info,
\* called with the empty path by a Store (with an empty or a non-empty root)
\* that holds a file, succeed, and exists and is_folder answer TRUE.
C16_RootOps == RootCall(RootOps) => RootAnswer

\* a list_files call on a backend that declares LIST, the backend key it
\* names, and the native paths of the files it has yielded
ListFilesCall == Returned({"list_files"}) /\ ~Gated("list") /\ full_path(root, last.path).ok
ListKey == full_path(root, last.path).path
Yielded == {Native(full_path(root, info.path).path) : info \in last.out}

\* what list_files owes for a folder, and for a path that is absent or a file
ListsFolder ==
    Backend_is_folder(last.pre, ListKey)
    => /\ last.res = "ok"
       /\ Yielded = (IF last.f1 THEN FilesUnder(last.pre, Native(ListKey))
                     ELSE FilesIn(last.pre, Native(ListKey)))
ListsNothing == last.res = "ok" /\ last.out = {}

\* list_files as claimed, on every path but a file of an S3 backend
ListFilesButS3File ==
    ListFilesCall
    => /\ ListsFolder
       /\ ~Backend_exists(last.pre, ListKey) => ListsNothing
       /\ (Backend_is_file(last.pre, ListKey) /\ FilesUnder(last.pre, Native(ListKey)) = {} /\ ~OnS3)
          => ListsNothing

\* C17 (list_files, every backend): for a folder, recursive=false yields
\* exactly the files that are its direct children and recursive=true exactly
\* the files at any depth under it; for a path that does not exist, or that
\* is a file with nothing stored under it, it yields nothing and raises no
\* error.
C17_ListFiles ==
    ListFilesCall
    => /\ ListsFolder
       /\ ~Backend_exists(last.pre, ListKey) => ListsNothing
       /\ (Backend_is_file(last.pre, ListKey) /\ FilesUnder(last.pre, Native(ListKey)) = {})
          => ListsNothing

\* a get_folder_info call with a non-empty path on a backend that declares METADATA
FolderInfoCall == Returned({"get_folder_info"}) /\ ~Gated("metadata") /\ Key.ok

\* the FolderInfo of the folder: its files at any depth and the sum of their sizes
Aggregated ==
    /\ last.res = "ok"
    /\ \A info \in last.out :
          /\ info.file_count = Cardinality(FilesUnder(last.pre, Native(Key.path)))
          /\ info.total_size = SumSizes(last.pre, FilesUnder(last.pre, Native(Key.path)))
    /\ last.out # {}

\* a folder of a real-folder backend that holds no file at any depth
EmptyRealFolder ==
    RealFolders /\ Backend_is_folder(last.pre, Key.path) /\ FilesUnder(last.pre, Native(Key.path)) = {}

\* get_folder_info as claimed, except on an empty folder of the SFTP backend
\* and on a file of an S3 backend
FolderInfoButEmptyOrS3File ==
    FolderInfoCall
    => /\ (Backend_is_folder(last.pre, Key.path) /\ ~(kind = "sftp" /\ EmptyRealFolder)) => Aggregated
       /\ ~Backend_exists(last.pre, Key.path) => last.res = "NotFound"
       /\ (Backend_is_file(last.pre, Key.path) /\ ~OnS3) => last.res = "NotFound"

\* C18 (get_folder_info, every backend): on an existing folder, an empty one
\* on the local and SFTP backends included, it succeeds with file_count the
\* number of files at any depth under path and total_size the sum of their
\* sizes; on a path that is absent, or that is a file with nothing stored
\* under it, it raises NotFound.
C18_FolderInfo ==
    FolderInfoCall
    => /\ Backend_is_folder(last.pre, Key.path) => Aggregated
       /\ ~Backend_exists(last.pre, Key.path) => last.res = "NotFound"
       /\ (Backend_is_file(last.pre, Key.path) /\ FilesUnder(last.pre, Native(Key.path)) = {})
          => last.res = "NotFound"

\* nothing is stored at the backend key or below it (the backend's own
\* root, the bucket on S3, is never absent)
Absent(fs, key) ==
    /\ Native(key) # NativeRoot(kind)
    /\ ~P_exists(fs, Native(key))
    /\ FilesUnder(fs, Native(key)) = {}
    /\ DirsUnder(fs, Native(key)) = {}

\* the three predicates agree with each other on the backend key
Discriminates(fs, key) ==
    /\ ~(Backend_is_file(fs, key) /\ Backend_is_folder(fs, key))
    /\ Backend_exists(fs, key) <=> (Backend_is_file(fs, key) \/ Backend_is_folder(fs, key))
    /\ Absent(fs, key)
       => ~Backend_exists(fs, key) /\ ~Backend_is_file(fs, key) /\ ~Backend_is_folder(fs, key)

\* C19: in every state and for every valid path, on every backend, exists,
\* is_file and is_folder return a boolean and raise nothing; all three are
\* false for an absent path; is_file and is_folder are never both true; and
\* exists equals is_file or is_folder.
C19_Predicates ==
    /\ \A k \in ProbeKeys : Discriminates(Cur, k)
    /\ (Returned({"exists", "is_file", "is_folder"}) /\ full_path(root, last.path).ok)
       => /\ last.res = "ok"
          /\ \E b \in BOOLEAN : last.out = {b}
          /\ Discriminates(last.pre, ListKey)
          /\ last.out = {CASE last.op = "exists" -> Backend_exists(last.pre, ListKey)
                           [] last.op = "is_file" -> Backend_is_file(last.pre, ListKey)
                           [] last.op = "is_folder" -> Backend_is_folder(last.pre, ListKey)}

\* is_folder has answered FALSE for a path that is a file with other files
\* stored below its name (possible on S3 only)
C19_Witness ==
    /\ Returned({"is_folder"})
    /\ full_path(root, last.path).ok /\ last.path # <<>>
    /\ Backend_is_file(last.pre, ListKey)
    /\ FilesUnder(last.pre, Native(ListKey)) # {}
    /\ last.out = {FALSE}

\* C20 (local backend): whatever native failure a call meets, the caller gets
\* a result or an error of the taxonomy and no native exception (stated here
\* for every call but delete, move and copy, which C8 to C10 look at).
C20_LocalErrorMapping ==
    (kind = "local" /\ pc = "returned" /\ last.op \notin {"move", "copy", "delete"})
    => last.res # "NativeError"

(***************************************************************************)
(* Registry construction, failing lookups and close (SpecRegistry).        *)
(***************************************************************************)
\* some store profile references a backend name that is no key of backends
Dangling(cfg) == \E s \in DOMAIN cfg.stores : cfg.stores[s].backend \notin DOMAIN cfg.backends

\* C23: Registry(config) raises ValueError exactly when some store profile
\* references a backend name that is no key of config.backends; the error
\* names such a backend and lists the keys of config.backends, and nothing
\* has been or can be done with the Registry that was not produced; on a
\* constructed Registry a get_store for a configured store name finds the
\* backend configuration its profile references (no KeyError).
C23_ValidatedFirst ==
    /\ built.res # "no" => (built.res = "ValueError" <=> Dangling(config))
    /\ built.res = "ValueError"
       => /\ built.unknown \notin DOMAIN config.backends
          /\ \E s \in DOMAIN config.stores : config.stores[s].backend = built.unknown
          /\ built.available = DOMAIN config.backends
    /\ built.res # "ok" => NothingConstructed /\ requested = <<>> /\ closes = 0 /\ reg = NoRegistryCall
    /\ reg.op = "get_store" /\ reg.name \in DOMAIN config.stores
       => /\ config.stores[reg.name].backend \in DOMAIN config.backends
          /\ reg.res # "KeyError"

\* construction over the configuration whose profiles "other" and "escape"
\* reference the missing "aux" has raised
C23_Witness ==
    /\ config = DanglingConfig
    /\ built = Built("ValueError", "aux", BackendNames \ {"aux"})

\* the step is a get_store call that raised one of the exceptions in kinds
FailedGetStore(kinds) ==
    /\ Len(requested') = Len(requested) + 1
    /\ reg'.op = "get_store"
    /\ reg'.res \in kinds

\* what a get_store that raised leaves as it was: the cache and its order,
\* the instances constructed, the Stores handed out
RegistryKept == UNCHANGED <<backends, order, made, handed, config, built>>

\* every lookup of a profile whose backend options the constructor rejects
\* invokes the factory again, and none of them is remembered
Reattempted ==
    \A s \in DOMAIN config.stores :
        LET n == config.stores[s].backend IN
        reg'.name = s /\ n \in DOMAIN config.backends
                      /\ config.backends[n].type \in BACKEND_FACTORIES
                      /\ factory(config.backends[n]) = "TypeError"
        => calls'[n] = calls[n] + 1 /\ reg'.res = "ValueError"

GetStoreFailures == {"KeyError", "ValueError", "InvalidPath", "NativeError"}

\* C24 as claimed: whichever way a get_store call fails, the call leaves the
\* Registry as it was.
C24_FailureKeepsRegistryAsClaimed == [][FailedGetStore(GetStoreFailures) => RegistryKept]_vars

\* C24 (amended): a get_store call that raises KeyError (unknown store name)
\* or ValueError (unregistered backend type, constructor options rejected)
\* leaves the Registry as it was: nothing is added to the cache, the cached
\* backends are kept; the failure is not remembered, a later get_store for
\* the same name invokes the factory again.
C24_FailureKeepsRegistry ==
    [][FailedGetStore({"KeyError", "ValueError"}) => RegistryKept /\ Reattempted]_vars

\* with "main" cached, get_store("typo") has failed twice on the rejected
\* options, invoking the factory each time, after an unknown store name and
\* before nothing else; "main" is still cached
C24_Witness ==
    /\ requested = <<[name |-> "top", res |-> "ok"], [name |-> UnknownStore, res |-> "KeyError"],
                     [name |-> "typo", res |-> "ValueError"], [name |-> "typo", res |-> "ValueError"]>>
    /\ calls["badopts"] = 2
    /\ backends["badopts"] = 0
    /\ backends["main"] = 1
    /\ order = <<"main">>

\* the most recent Registry call was close() or the __exit__ of a with block
Closed == reg.op \in {"close", "exit"}

\* every backend the cache held has had its close() called, the cache is empty
AllClosed ==
    /\ \A n \in BackendNames : shut.pre[n] # 0 => n \in shut.called
    /\ \A n \in BackendNames : backends[n] = 0
    /\ order = <<>>

\* close() and __exit__ do as claimed whenever no backend's close() raises
CloseAllButRaising == Closed /\ shut.raised = {} => AllClosed /\ reg.res = "ok"

\* C25: after Registry.close(), and after the __exit__ of a with block left
\* normally or by an exception, close() has been called on every Backend in
\* the cache and the cache is empty, also when a backend's close() raised.
C25_CloseAll == Closed => AllClosed

(***************************************************************************)
(* Backend lifecycle (SpecSession).                                        *)
(***************************************************************************)
\* an SFTP operation has ended whose _connect had every handshake refused
Unreachable ==
    /\ kind = "sftp"
    /\ spc = "idle"
    /\ ses.op \in SessionOps
    /\ ses.connects = 1
    /\ attempts = MaxAttempts
    /\ ssh_client = "none"

\* the failure is reported as BackendUnavailable where the handshake raised
\* paramiko.SSHException and the operation leaves it to _errors
UnreachableButOSError ==
    Unreachable /\ ses.exc = "SSHException" /\ ses.op \notin ListingOps
    => ses.res = "BackendUnavailable"

\* C21: an SFTP operation whose session could not be established, every
\* handshake having failed, fails with BackendUnavailable; exists, is_file,
\* is_folder, list_files and list_folders among them, none of which answers
\* False or an empty listing.
C21_Unreachable == Unreachable => ses.res = "BackendUnavailable"

\* the step creates a client or a session
ClientCreated ==
    \/ ssh_client = "none" /\ ssh_client' # "none"
    \/ sftp_client = "none" /\ sftp_client' # "none"
    \/ fs_instance = "none" /\ fs_instance' # "none"
    \/ pa_fs_instance = "none" /\ pa_fs_instance' # "none"

\* C27: the constructor of every backend succeeds and leaves it without
\* client or session, whether the endpoint is reachable or not; reading
\* name or capabilities leaves the clients as they are; a client or session
\* comes into being only in the course of an operation that uses it.
C27_LazyConnection ==
    [][/\ ses'.op = "init" => ses'.res = "ok" /\ alive' /\ NoClients'
       /\ scalls' = scalls + 1 /\ ses'.op \in {"name", "capabilities"}
          => UNCHANGED <<ssh_client, sftp_client, fs_instance, pa_fs_instance>>
       /\ ClientCreated => ses'.op \in SessionOps /\ (scalls' = scalls + 1 \/ spc = "connecting")]_vars

\* an SFTP backend constructed while the server refuses every handshake,
\* its name read since: no session
C27_Witness ==
    /\ kind = "sftp"
    /\ alive
    /\ ses.op = "name"
    /\ ses.lost = MaxOutage
    /\ outage = MaxOutage
    /\ NoClients

\* an SFTP operation has ended
SFTPCallEnded == kind = "sftp" /\ spc = "idle" /\ ses.op \in SessionOps

\* the server answered within the handshakes of one _connect and opened
\* the SFTP channel
Reachable == ses.lost < 3 /\ subsystem

\* C28: an SFTP operation that finds a live session uses it; one that finds
\* no session, or a session whose liveness probe fails, has the stale
\* clients closed and a session established by one _connect before the
\* operation is issued; provided the server is reachable, the operation is
\* then issued once on the new session and its result is the operation's
\* own, not a connection failure.
C28_SelfHealing ==
    SFTPCallEnded
    => /\ ses.had = "live" => ses.connects = 0 /\ ses.issued = 1 /\ ses.exc = "none"
       /\ ses.had # "live" => ses.connects = 1
       /\ ses.had = "stale" => ses.reaped = {"sftp", "ssh"}
       /\ ses.had # "live" /\ Reachable
          => /\ sftp_client # "none"
             /\ ssh_client # "none"
             /\ ses.issued = 1
             /\ ses.exc = "none"

\* the connection was dropped after a write; the next read found the stale
\* session, reconnected at the third handshake and returned what was written
C28_Witness ==
    /\ SFTPCallEnded
    /\ ses.op = "read_bytes"
    /\ ses.had = "stale"
    /\ ses.lost = 2
    /\ attempts = 3
    /\ ses.res = "ok"
    /\ ses.out = {Full(1)}
    /\ sftp_client = "live"

\* no _connect makes more than 3 handshakes; a _connect that has ended
\* holds a session or has raised; no operation is issued twice, and one
\* that fails on the session it found is not followed by a reconnect
RetryConfined ==
    /\ attempts <= 3
    /\ ses.issued <= 1
    /\ SFTPCallEnded /\ ses.connects = 1
       => \/ sftp_client # "none" /\ ssh_client # "none" /\ ses.exc = "none"
          \/ ses.exc # "none" /\ sftp_client = "none"
    /\ SFTPCallEnded /\ ses.had = "live" /\ ses.res # "ok"
       => ses.issued = 1 /\ ses.connects = 0

\* C29: one _connect makes at most 3 handshakes and ends, holding a session
\* or raising the failure of the last one; an operation is issued on the
\* session once, and when it fails on an established session its error is
\* the result of the call, with no reconnect and no second attempt.
C29_BoundedRetry == []RetryConfined /\ (spc = "connecting" ~> spc = "idle")

\* a read that failed on the session a _connect had established at its
\* third handshake
C29_Witness ==
    /\ SFTPCallEnded
    /\ ses.op = "read_bytes"
    /\ ses.had = "live"
    /\ ses.res = "NotFound"
    /\ ses.issued = 1
    /\ attempts = 3

\* the step is a Backend.close() call
CloseStep == scalls' = scalls + 1 /\ ses'.op = "close"

\* C30: Backend.close() of every backend, called on a backend never used,
\* on one holding clients or a session (live or stale), or right after
\* another close(), raises nothing and leaves the backend without client or
\* session; called right after another close() it changes nothing.
C30_CloseIdempotent ==
    [][CloseStep
       => /\ ses'.res = "ok"
          /\ NoClients'
          /\ ses.op = "close"
             => UNCHANGED <<ssh_client, sftp_client, fs_instance, pa_fs_instance, alive, files, dirs>>]_vars

\* an SFTP backend that had connected has been closed twice in a row
C30_Witness ==
    /\ kind = "sftp"
    /\ attempts = 1
    /\ scalls = 3
    /\ ses.op = "close"
    /\ ses.closings = 1
    /\ ses.had = "none"
    /\ closings = 2
    /\ NoClients

\* C26: when a with Store(...) block has been left, at its end or by an
\* exception an operation in it raised, __exit__ has called Backend.close()
\* exactly once: the block is over, close() ran once more than before the
\* exit, and the backend holds no client or session.
C26_WithStoreCloses ==
    ses.op = "exit"
    => /\ block = "out"
       /\ closings = ses.closings + 1
       /\ ses.res = "ok"
       /\ NoClients

\* a block on an SFTP backend left by the NotFound of a read on the live
\* session: the session is closed
C26_Witness ==
    /\ kind = "sftp"
    /\ ses.op = "exit"
    /\ ses.out = {Property("exception")}
    /\ ses.had = "live"
    /\ closings = 1
    /\ NoClients

(***************************************************************************)
(* Traversal defence of the local backend (SpecLinks).                     *)
(***************************************************************************)
\* the canonical form of root/path of the call is not inside the root
Escaping == lcall.op # "none" /\ ~InTree(LocalRoot, realpath(links, LocalBackend_resolve(lcall.path)))

\* a call whose path escapes raises InvalidPath and reads and changes nothing
EscapingPathRefused ==
    Escaping => lcall.res = "InvalidPath" /\ lcall.touched = {} /\ Cur = lcall.pre

\* nothing outside the root is created, changed or deleted
OutsideIntact ==
    /\ \A n \in DOMAIN files : ~InTree(LocalRoot, n) => n = OutsideFile /\ files[n] = Full(2)
    /\ OutsideFile \in DOMAIN files
    /\ \A n \in dirs : ~InTree(LocalRoot, n) => n = OutsideDir
    /\ OutsideDir \in dirs

\* C22: a LocalBackend call whose path has a canonical form outside the
\* canonical root raises InvalidPath and reads and writes nothing; no call
\* reads, creates, changes or deletes anything outside the root.
C22_TraversalDefence ==
    /\ EscapingPathRefused
    /\ OutsideIntact
    /\ \A n \in lcall.touched : InTree(LocalRoot, n)

(***************************************************************************)
(* C33: built-in backend types                                             *)
(***************************************************************************)
\* the type names of the adapters the package ships
BuiltinTypes == {"local", "s3", "s3-pyarrow", "sftp"}

\* the get_store just made named a profile whose backend configuration has a
\* built-in type and options its constructor accepts
BuiltinRequested ==
    /\ reg.op = "get_store"
    /\ reg.name \in DOMAIN config.stores
    /\ config.stores[reg.name].backend \in DOMAIN config.backends
    /\ config.backends[config.stores[reg.name].backend].type \in BuiltinTypes
    /\ config.backends[config.stores[reg.name].backend].options = "ok"

\* the part of C33 the code keeps: a profile of type "local" is never refused
\* as an unknown type (ValueError is then left to rejected options only)
LocalRegistered ==
    (BuiltinRequested /\ config.backends[config.stores[reg.name].backend].type = "local")
        => reg.res # "ValueError"

\* C33: once a Registry has been constructed, get_store for a profile whose
\* backend type is "local", "s3", "s3-pyarrow" or "sftp" does not fail with
\* the unknown-backend-type ValueError, without any register_backend call
C33_BuiltinsRegistered == BuiltinRequested => reg.res # "ValueError"

(***************************************************************************)
(* C37: delete_folder on a path that holds a file                          *)
(***************************************************************************)
\* a delete_folder reached the backend with a path at which a file existed
DeleteFolderOnFile == DeleteFolderCall /\ Backend_is_file(last.pre, Key.path)

\* what C37 asks of such a call
FileRefusedAndKept == last.res = "NotFound" /\ StorageUnchanged

\* the part of C37 the code keeps: on the local and the SFTP backend the call
\* raises NotFound for every recursive and missing_ok and changes nothing
DeleteFolderOnFileButS3 ==
    (DeleteFolderOnFile /\ kind \in {"local", "sftp"}) => FileRefusedAndKept

\* C37: delete_folder(p) where p is an existing file raises NotFound on every
\* backend, for every combination of recursive and missing_ok, and leaves
\* the file at p in place with its content unchanged
C37_DeleteFolderOnFile == DeleteFolderOnFile => FileRefusedAndKept

(***************************************************************************)
(* C39: a move never destroys the moved content                            *)
(***************************************************************************)
\* a move of an existing file reached the backend
MoveOfFile == MoveCall /\ Backend_is_file(last.pre, Key.path)

\* the content src held is at dst after a move that returned, at src after a
\* move that raised
ContentKept ==
    IF last.res = "ok" THEN Reads(Cur, last.dst, ContentAt(last.pre, Key.path))
    ELSE Reads(Cur, last.path, ContentAt(last.pre, Key.path))

\* the part of C39 the code keeps: on the local backend always, on the other
\* backends whenever src and dst are different paths
MoveKeepsContentButOntoItself ==
    (MoveOfFile /\ (kind = "local" \/ Key.path # DstKey.path)) => ContentKept

\* C39: after every successful move(src, dst, overwrite), for all file paths
\* src and dst including src = dst with overwrite=true, read_bytes(dst)
\* returns the content src held before the call; after every failed move the
\* original content is still readable at src
C39_MoveKeepsContent == MoveOfFile => ContentKept

(***************************************************************************)
(* C36: temporary-file hygiene of write_atomic (local, SFTP)               *)
(***************************************************************************)
\* a write_atomic that had created its temporary file has ended and its
\* result, value or error, is with the caller
AtomicDone ==
    /\ pc = "returned"
    /\ last.op = "write_atomic"
    /\ last.stage # "call"
    /\ kind \in {"local", "sftp"}

NoTmpLeft == ~P_isfile(Cur, Tmp)

\* the part of C36 the code keeps: the temporary file is gone when the call
\* ends; a successful call adds the target and nothing else to the files; a
\* failed call leaves the set of files as it was unless it failed in the
\* remove-then-rename fallback of SFTP, and leaves no folder behind other
\* than the parents it created for the target
TmpRemovedButFoldersAndFallback ==
    AtomicDone
    => /\ NoTmpLeft
       /\ last.res = "ok"
          => /\ P_isfile(Cur, Target)
             /\ DOMAIN files = DOMAIN last.pre.files \cup {Target}
       /\ last.res # "ok"
          => /\ last.stage # "fallback_rename" => DOMAIN files = DOMAIN last.pre.files
             /\ last.pre.dirs \subseteq dirs
             /\ dirs \subseteq last.pre.dirs \cup Ancestors(Target)

\* C36: after a successful write_atomic on the local or the SFTP backend no
\* temporary file remains beside the target; after a call that fails once
\* the temporary file was created, the temporary file has been removed when
\* the error reaches the caller and the set of files and folders in the
\* backend equals the set before the call
C36_TmpHygiene ==
    AtomicDone
    => /\ NoTmpLeft
       /\ last.res = "ok" => P_isfile(Cur, Target)
       /\ last.res # "ok" => DOMAIN files = DOMAIN last.pre.files /\ dirs = last.pre.dirs

(***************************************************************************)
(* C40: close() is not terminal                                            *)
(***************************************************************************)
\* an operation has ended that began after at least one close() of the
\* backend, made directly or by a Store leaving its with block
AfterClose == alive /\ spc = "idle" /\ ses.op \in SessionOps /\ ses.closings > 0

\* the endpoint answered the call: on SFTP within the handshakes of one
\* _connect and with the SFTP subsystem, on S3 at once
ServerUp == IF kind = "sftp" THEN ses.lost < MaxAttempts /\ subsystem ELSE ses.lost = 0

\* the client the operation needs is there again
ClientsBack ==
    CASE kind = "local" -> TRUE
      [] kind = "s3" -> fs_instance = "made"
      [] kind = "s3-pyarrow" -> IF ses.op \in {"read_bytes", "write"} THEN pa_fs_instance = "made"
                                ELSE fs_instance = "made"
      [] kind = "sftp" -> sftp_client # "none" /\ ssh_client # "none"

\* C40: after close() on an S3, S3-hybrid or SFTP backend (and on the local
\* backend, where close does nothing) the next operation, and every later
\* one, re-creates the client or session on demand and is carried out: it
\* is issued once and ends with the result the storage gives, not with
\* BackendUnavailable or RemoteStoreError; so a Store that was closed, or
\* whose with block was left, does not make operations fail on another Store
\* sharing the Backend
C40_CloseNotTerminal ==
    (AfterClose /\ ServerUp)
    => /\ ses.issued = 1
       /\ ses.exc = "none"
       /\ ses.res \notin {"BackendUnavailable", "RemoteStoreError"}
       /\ ClientsBack

\* after a write and a close, a read on SFTP opened a new session and
\* returned the content
C40_Witness ==
    /\ AfterClose
    /\ kind = "sftp"
    /\ ses.op = "read_bytes"
    /\ ses.had = "none"
    /\ ses.connects = 1
    /\ ses.res = "ok"
    /\ ses.out = {Full(1)}

(***************************************************************************)
(* C31: path normalisation                                                 *)
(***************************************************************************)
\* character i of the raw string is a separator once backslashes count as slashes
Sep(s, i) == s[i] = "/" \/ s[i] = "\\"

\* characters i..j of s are a whole segment: bounded by separators or the
\* ends of the string, with no separator inside
Segment(s, i, j) ==
    /\ i <= j
    /\ i = 1 \/ Sep(s, i - 1)
    /\ j = Len(s) \/ Sep(s, j + 1)
    /\ \A k \in i..j : ~Sep(s, k)

Segments(s) == {<<i, j>> \in (1..Len(s)) \X (1..Len(s)) : Segment(s, i, j)}
IsDots(s, g, n) == g[2] - g[1] + 1 = n /\ \A k \in g[1]..g[2] : s[k] = "."

\* the three reasons for InvalidPath, read off the characters of the raw string
HasNull(s) == \E i \in 1..Len(s) : s[i] = "NUL"
HasDotDot(s) == \E g \in Segments(s) : IsDots(s, g, 2)
NothingLeft(s) == \A g \in Segments(s) : IsDots(s, g, 1)

\* the segments that remain, in order, each as the string it is
Remaining(s) ==
    LET kept == {g \in Segments(s) : ~IsDots(s, g, 1)}
        nth[n \in 0..Cardinality(kept)] ==
            IF n = 0 THEN <<>>
            ELSE LET g == CHOOSE h \in kept : Cardinality({e \in kept : e[1] < h[1]}) = n - 1
                 IN  Append(nth[n - 1], SubSeq(s, g[1], g[2]))
    IN  nth[Cardinality(kept)]

\* C31: RemotePath(raw) raises InvalidPath exactly when raw contains a null
\* byte, or has a segment ".." once backslashes are slashes, or has no
\* segment other than empty and "." ones; an accepted raw normalises to its
\* remaining segments joined by "/", and normalising that result again
\* returns it unchanged
C31_Normalization ==
    /\ Len(normed) >= 1
       => /\ ~normed[1].ok <=> (HasNull(given) \/ HasDotDot(given) \/ NothingLeft(given))
          /\ normed[1].ok => split(normed[1].path) = Remaining(given)
          /\ normed[1].ok => normed[1].path = join(Remaining(given))
    /\ Len(normed) = 2 => normed[2] = normed[1]

\* a raw string with a backslash and a "." segment was accepted, changed by
\* the normalisation, and normalised a second time
C31_Witness ==
    /\ Len(normed) = 2
    /\ given = <<"a", "\\", ".">>
    /\ normed[1].path = <<"a">>

(***************************************************************************)
(* C32: Store.to_key                                                       *)
(***************************************************************************)
\* the backend-relative form of a path that names something in the backend:
\* what follows the native root and its "/", or the path itself when it is
\* relative already; a path elsewhere has none
BackendRelative(n) ==
    IF n = NativeRoot(kind) THEN Valid(<<>>)
    ELSE IF StartsWith(n, NativeRoot(kind) \o SL)
         THEN Valid(SubSeq(n, Len(NativeRoot(kind)) + 2, Len(n)))
    ELSE IF n # <<>> /\ n[1] # "/" /\ ~StartsWith(n, NativeRoot(kind)) THEN Valid(n)
    ELSE Invalid

UnderRoot(rel) == root = <<>> \/ rel = root \/ StartsWith(rel, root \o SL)

ToKeyCall == kcall.op = "to_key" /\ BackendRelative(kcall.native).ok

\* what C32 asks of a to_key call
KeyRoundTrip ==
    LET rel == BackendRelative(kcall.native).path
    IN  /\ UnderRoot(rel) => kcall.res = "ok" /\ full_path(root, kcall.key) = Valid(rel)
        /\ (root # <<>> /\ ~UnderRoot(rel)) => kcall.res = "InvalidPath"
        /\ Cur = kcall.pre

\* the part of C32 the code keeps: the claim on the local, the S3-hybrid and
\* the SFTP backend, but for the bucket itself on the S3-hybrid backend,
\* which comes back as the key named like the bucket
ToKeyButS3 ==
    (ToKeyCall /\ kind # "s3" /\ ~(kind = "s3-pyarrow" /\ kcall.native = Bucket)) => KeyRoundTrip

\* C32: Store.to_key(n), on a Store over any of the four backends: when the
\* backend-relative form of n lies under the Store's root it returns a key
\* that the Store resolves back to that backend-relative path; when the
\* Store has a non-empty root and the form is not under it, it raises
\* InvalidPath; it changes no state
C32_ToKey == ToKeyCall => KeyRoundTrip

\* ---- C35 ----
\* a write that went past its existence check
PastCheck(c) == tasks[c].op = "write" /\ tasks[c].pc = "done" /\ tasks[c].rank > 0

\* C35: write with overwrite=false is a check followed by a separate write:
\* a write that found its path absent at the check never raises
\* AlreadyExists afterwards, whatever another caller has written to the path
\* in between, and when it succeeds as the latest write its content is the
\* one at the path, the earlier writer's content replaced
C35_CheckThenWrite ==
    \A c \in Callers :
        PastCheck(c) =>
            /\ tasks[c].res # "AlreadyExists"
            /\ (tasks[c].res = "ok" /\ tasks[c].rank = clock) =>
                    Readable(Cur, tasks[c].path) = {tasks[c].content}

\* two callers wrote different contents to the same absent path with
\* overwrite=false, both returned success, and the path holds the content of
\* the later one
C35_Witness ==
    /\ PastCheck(1) /\ PastCheck(2)
    /\ ~tasks[1].ow /\ ~tasks[2].ow
    /\ tasks[1].path = tasks[2].path
    /\ tasks[1].content # tasks[2].content
    /\ tasks[1].res = "ok" /\ tasks[2].res = "ok"
    /\ tasks[1].rank = 1 /\ tasks[2].rank = 2 /\ clock = 2
    /\ Readable(Cur, tasks[2].path) = {tasks[2].content}

\* ---- C34 ----
\* a move by caller c of a file, past its checks: in flight, failed at a
\* step, or ended
MoveOfContent(c) ==
    /\ tasks[c].op = "move"
    /\ tasks[c].held # {}
    /\ tasks[c].res \notin {"NotFound", "AlreadyExists"}
    /\ tasks[c].pc \in {"move_checked", "move_copied", "done"}

\* the content src had at the check is readable at src or at dst now, and
\* at dst once the move has returned normally
HeldSomewhere(c) ==
    /\ tasks[c].held \subseteq Readable(Cur, tasks[c].path) \cup Readable(Cur, tasks[c].dst)
    /\ tasks[c].res = "ok" => tasks[c].held = Readable(Cur, tasks[c].dst)

\* what the reader saw belongs to the step it looked at: before the copy
\* the content at src, after the copy the content at src and at dst
PeekInStep(c) ==
    (tasks[c].pc \in {"move_checked", "move_copied"} /\ peek.stage = tasks[c].pc) =>
        /\ tasks[c].held = peek.src
        /\ peek.stage = "move_copied" => tasks[c].held = peek.dst

\* the part of C34 the code keeps: the claim for src # dst
MoveStepsButOntoItself ==
    \A c \in Callers :
        (MoveOfContent(c) /\ tasks[c].path # tasks[c].dst) => HeldSomewhere(c) /\ PeekInStep(c)

\* the window: between the copy and the delete a reader finds the content
\* at src and at dst, two different paths
MoveWindow ==
    \E c \in Callers :
        /\ MoveOfContent(c)
        /\ tasks[c].path # tasks[c].dst
        /\ tasks[c].pc = "move_copied"
        /\ peek.stage = "move_copied"
        /\ peek.src = tasks[c].held
        /\ peek.dst = tasks[c].held

\* a move that failed at its delete step: the content is at src and at dst
MoveFailedAtDelete ==
    \E c \in Callers :
        /\ MoveOfContent(c)
        /\ tasks[c].path # tasks[c].dst
        /\ tasks[c].pc = "done"
        /\ tasks[c].res = "RemoteStoreError"
        /\ tasks[c].held = Readable(Cur, tasks[c].path)
        /\ tasks[c].held = Readable(Cur, tasks[c].dst)

\* C34: the S3-hybrid move is check, copy, delete; between copy and delete a
\* reader sees src and dst both, and at every point of the move, and after a
\* failure of any step, the content of src is readable at src or at dst
C34_MoveSteps ==
    \A c \in Callers : MoveOfContent(c) => HeldSomewhere(c) /\ PeekInStep(c)

\* ---- C38 ----
\* the backend paths of the call at hand: its path argument resolved by the
\* Store, and its dst for move and copy
PassedPaths ==
    {k.path : k \in {k \in {full_path(root, last.path)} \cup
                             (IF last.op \in {"move", "copy"} THEN {full_path(root, last.dst)} ELSE {}) :
                        k.ok}}

\* what the Store of root r finds on storage fs: exists, read_bytes and
\* list_files over its paths, as its Backend answers them
Observe(r, fs) ==
    [p \in {p \in SharedPaths : full_path(r, p).ok} |->
        LET k == full_path(r, p).path
        IN  [exists |-> Backend_exists(fs, k),
             read_bytes |-> {<<o.res, o.out>> : o \in Backend_read_bytes(fs, k)},
             list_files |-> {<<o.res, o.out>> : o \in Backend_list_files(fs, k, FALSE)},
             list_files_recursive |-> {<<o.res, o.out>> : o \in Backend_list_files(fs, k, TRUE)}]]

\* C38: every path a Store passes to its Backend is its root or starts with
\* root + "/", and a call on one Store, at each of its steps and at its end,
\* leaves what exists, read_bytes and list_files return on a Store of an
\* unrelated root as they were before the call
C38_RootIsolation ==
    last.op # "none" =>
        /\ \A k \in PassedPaths : k = root \/ StartsWith(k, root \o SL)
        /\ Observe(OtherRoot, Cur) = Observe(OtherRoot, last.pre)

\* a write on one Store succeeded at the path where the other Store holds a
\* file of another content, which the other Store still reads
C38_Witness ==
    /\ pc = "returned"
    /\ last.op = "write"
    /\ last.res = "ok"
    /\ last.path = <<"x">>
    /\ Observe(OtherRoot, Cur)[<<"x">>].read_bytes = {<<"ok", {Full(1)}>>}
    /\ last.content = Full(2)
    /\ Observe(root, Cur)[<<"x">>].read_bytes = {<<"ok", {Full(2)}>>}

====
